---- MODULE Spec2Model ----
(***************************************************************************)
(* A model of thermostate's State object (src/src/thermostate/thermostate.py)*)
(* together with the two external collaborators it drives: the CoolProp     *)
(* AbstractState backend and the pint unit registry.                        *)
(*                                                                          *)
(* Python strings that the code takes apart (pair names, CoolProp input     *)
(* selectors, substance names) are sequences of one-character strings, so   *)
(* that replace/lower/upper/sorted/[::-1] are computed, not assumed.        *)
(***************************************************************************)
EXTENDS Integers, Sequences, FiniteSets, TLC

(***************************************************************************)
(* Python str operations                                                    *)
(***************************************************************************)

\* The characters of the model in code-point order (str comparison, sorted()).
CodePoints ==
    <<" ", "1", "2", "3", "4",
      "A", "B", "C", "D", "E", "F", "G", "H", "I", "J", "K", "L", "M",
      "N", "O", "P", "Q", "R", "S", "T", "U", "V", "W", "X", "Y", "Z", "_",
      "a", "b", "c", "d", "e", "f", "g", "h", "i", "j", "k", "l", "m",
      "n", "o", "p", "q", "r", "s", "t", "u", "v", "w", "x", "y", "z">>

UpperLetters ==
    <<"A", "B", "C", "D", "E", "F", "G", "H", "I", "J", "K", "L", "M",
      "N", "O", "P", "Q", "R", "S", "T", "U", "V", "W", "X", "Y", "Z">>

LowerLetters ==
    <<"a", "b", "c", "d", "e", "f", "g", "h", "i", "j", "k", "l", "m",
      "n", "o", "p", "q", "r", "s", "t", "u", "v", "w", "x", "y", "z">>

Ord(c) == CHOOSE i \in 1..Len(CodePoints) : CodePoints[i] = c

UpperChar(c) ==
    IF \E i \in 1..26 : LowerLetters[i] = c
    THEN UpperLetters[CHOOSE i \in 1..26 : LowerLetters[i] = c]
    ELSE c

LowerChar(c) ==
    IF \E i \in 1..26 : UpperLetters[i] = c
    THEN LowerLetters[CHOOSE i \in 1..26 : UpperLetters[i] = c]
    ELSE c

\* str.upper()
Upper(s) == [i \in 1..Len(s) |-> UpperChar(s[i])]

\* str.lower()
Lower(s) == [i \in 1..Len(s) |-> LowerChar(s[i])]

\* s[::-1]
Reversed(s) == [i \in 1..Len(s) |-> s[Len(s) + 1 - i]]

\* s.startswith(pat)
StartsWith(s, pat) == Len(pat) <= Len(s) /\ SubSeq(s, 1, Len(pat)) = pat

\* pat in s
Contains(s, pat) ==
    \E i \in 1..(Len(s) + 1) :
        i + Len(pat) - 1 <= Len(s) /\ SubSeq(s, i, i + Len(pat) - 1) = pat

\* s.find(pat): the first index at which pat occurs in s, 0 when none does
Find(s, pat) ==
    IF Contains(s, pat)
    THEN CHOOSE i \in 1..Len(s) :
            /\ StartsWith(SubSeq(s, i, Len(s)), pat)
            /\ \A j \in 1..(i - 1) : ~StartsWith(SubSeq(s, j, Len(s)), pat)
    ELSE 0

\* s.replace(old, new), for a non-empty old: every non-overlapping occurrence,
\* scanning from the left.
RECURSIVE Replace(_, _, _)
Replace(s, old, new) ==
    IF Find(s, old) = 0 THEN s
    ELSE SubSeq(s, 1, Find(s, old) - 1) \o new
         \o Replace(SubSeq(s, Find(s, old) + Len(old), Len(s)), old, new)

\* a < b for two str
StrLess(a, b) ==
    \/ Len(a) < Len(b) /\ SubSeq(b, 1, Len(a)) = a
    \/ \E i \in 1..Len(a) :
          /\ i <= Len(b)
          /\ SubSeq(a, 1, i - 1) = SubSeq(b, 1, i - 1)
          /\ Ord(a[i]) < Ord(b[i])

\* "".join(parts)
RECURSIVE Join(_)
Join(parts) ==
    IF parts = <<>> THEN <<>> ELSE Head(parts) \o Join(Tail(parts))

(***************************************************************************)
(* CoolProp: the names the backend module exposes                           *)
(***************************************************************************)

INPUTS == <<"_", "I", "N", "P", "U", "T", "S">>
mass == <<"m", "a", "s", "s">>
molar == <<"m", "o", "l", "a", "r">>

\* The input-pair selectors of CoolProp on the given basis (its input_pairs
\* enumeration), as dir(CoolProp.constants) lists them.
InputPairsOn(basis) ==
    { <<"Q">> \o <<"S">> \o basis \o INPUTS,
      <<"H">> \o basis \o <<"Q">> \o INPUTS,
      <<"D">> \o basis \o <<"Q">> \o INPUTS,
      <<"D">> \o basis \o <<"T">> \o INPUTS,
      <<"H">> \o basis \o <<"T">> \o INPUTS,
      <<"S">> \o basis \o <<"T">> \o INPUTS,
      <<"T">> \o <<"U">> \o basis \o INPUTS,
      <<"D">> \o basis \o <<"P">> \o INPUTS,
      <<"H">> \o basis \o <<"P">> \o INPUTS,
      <<"P">> \o <<"S">> \o basis \o INPUTS,
      <<"P">> \o <<"U">> \o basis \o INPUTS,
      <<"H">> \o basis \o <<"S">> \o basis \o INPUTS,
      <<"S">> \o basis \o <<"U">> \o basis \o INPUTS,
      <<"D">> \o basis \o <<"H">> \o basis \o INPUTS,
      <<"D">> \o basis \o <<"S">> \o basis \o INPUTS,
      <<"D">> \o basis \o <<"U">> \o basis \o INPUTS }

\* dir(CoolProp.constants): the selectors without a basis, those on a mass and
\* on a molar basis, and other constants of the module.
CoolPropConstants ==
    { <<"Q", "T">> \o INPUTS, <<"P", "Q">> \o INPUTS, <<"P", "T">> \o INPUTS }
    \cup InputPairsOn(mass) \cup InputPairsOn(molar)
    \cup { <<"I", "N", "P", "U", "T", "_", "P", "A", "I", "R", "_",
             "I", "N", "V", "A", "L", "I", "D">>,
           <<"i", "T">>, <<"i", "P">>, <<"i", "Q">>,
           <<"i", "D">> \o mass, <<"i", "D">> \o molar }

(***************************************************************************)
(* The pair registry                                                        *)
(***************************************************************************)

munge_coolprop_input_prop(prop) ==
    LET a == Replace(prop, INPUTS, <<>>)
        b == Replace(a, mass, <<>>)
        c == Replace(b, <<"D">>, <<"V">>)
        d == Replace(c, <<"Q">>, <<"X">>)
    IN  Replace(Lower(d), <<"t">>, <<"T">>)

\* the set comprehension of lines 177-181, before the update() of line 182
_all_pairs_comprehension ==
    { munge_coolprop_input_prop(k) :
        k \in { n \in CoolPropConstants :
                  /\ Contains(n, <<"I", "N", "P", "U", "T", "S">>)
                  /\ ~Contains(n, molar) } }

_all_pairs ==
    _all_pairs_comprehension \cup { Reversed(k) : k \in _all_pairs_comprehension }

\* the literal of line 184, before the update() of line 185
_unsupported_pairs_literal ==
    { <<"T", "u">>, <<"T", "h">>, <<"u", "s">>, <<"h", "x">> }

\* A variant of _unsupported_pairs without the update() of line 185.
_unsupported_pairs_as_written == _unsupported_pairs_literal

_unsupported_pairs ==
    _unsupported_pairs_literal
        \cup { Reversed(k) : k \in _unsupported_pairs_literal }

_allowed_pairs == _all_pairs \ _unsupported_pairs

\* set("Tpvuhsx"): the one-character strings
_all_props == { <<"T">>, <<"p">>, <<"v">>, <<"u">>, <<"h">>, <<"s">>, <<"x">> }

_read_only_props == { <<"c", "p">>, <<"c", "v">>, <<"p", "h", "a", "s", "e">> }

(***************************************************************************)
(* pint: quantities, units and conversions                                  *)
(*                                                                          *)
(* A magnitude is an integer.  The factors are pint's, rounded to integers  *)
(* (273.15 -> 273, 459.67 -> 460, 6894.76 -> 6895, 4186.8 -> 4187,          *)
(* 0.0624 -> 1/16); the backend's table below lies on the grid where every  *)
(* conversion between the units of one dimension is exact.                  *)
(***************************************************************************)

\* A unit as the registry defines it: its canonical name, its dimensionality,
\* and base = ((magnitude + offset) * num) / den in the base unit.
UnitDef(name, dim, offset, num, den) ==
    [name |-> name, dim |-> dim, offset |-> offset, num |-> num, den |-> den]

DimTemperature == "[temperature]"
DimPressure == "[mass] / [length] / [time] ** 2"
DimVolume == "[length] ** 3 / [mass]"
DimEnergy == "[length] ** 2 / [time] ** 2"
DimEntropy == "[length] ** 2 / [time] ** 2 / [temperature]"
DimNone == "dimensionless"

\* units(spelling): the unit a unit string parses to.
UnitRegistry(spelling) ==
    CASE spelling \in {"kelvin", "K"} -> UnitDef("kelvin", DimTemperature, 0, 1, 1)
      [] spelling = "degC" -> UnitDef("degree_Celsius", DimTemperature, 273, 1, 1)
      [] spelling = "degF" -> UnitDef("degree_Fahrenheit", DimTemperature, 460, 5, 9)
      [] spelling \in {"pascal", "Pa"} -> UnitDef("pascal", DimPressure, 0, 1, 1)
      [] spelling = "bar" -> UnitDef("bar", DimPressure, 0, 100000, 1)
      [] spelling = "psi" ->
            UnitDef("pound_force_per_square_inch", DimPressure, 0, 6895, 1)
      [] spelling \in {"meter**3/kilogram", "m**3/kg"} ->
            UnitDef("meter ** 3 / kilogram", DimVolume, 0, 1, 1)
      [] spelling = "ft**3/lb" -> UnitDef("foot ** 3 / pound", DimVolume, 0, 1, 16)
      [] spelling \in {"joules/kilogram", "J/kg"} ->
            UnitDef("joule / kilogram", DimEnergy, 0, 1, 1)
      [] spelling = "kJ/kg" -> UnitDef("kilojoule / kilogram", DimEnergy, 0, 1000, 1)
      [] spelling = "BTU/lb" ->
            UnitDef("british_thermal_unit / pound", DimEnergy, 0, 2326, 1)
      [] spelling \in {"joules/(kilogram*kelvin)", "J/(kg*K)"} ->
            UnitDef("joule / kelvin / kilogram", DimEntropy, 0, 1, 1)
      [] spelling \in {"kJ/(kg*K)", "kJ/(K*kg)"} ->
            UnitDef("kilojoule / kelvin / kilogram", DimEntropy, 0, 1000, 1)
      [] spelling = "BTU/(lb*degR)" ->
            UnitDef("british_thermal_unit / degree_Rankine / pound",
                    DimEntropy, 0, 4187, 1)
      [] spelling = "dimensionless" -> UnitDef("dimensionless", DimNone, 0, 1, 1)
      [] spelling = "percent" -> UnitDef("percent", DimNone, 0, 1, 100)

\* Python values held by an attribute: a Quantity, None, a str, or no
\* attribute at all.
Q_(magnitude, spelling) ==
    [tag |-> "Quantity", magnitude |-> magnitude, units |-> UnitRegistry(spelling)]

None == [tag |-> "None"]

Str(s) == [tag |-> "str", s |-> s]

Unset == [tag |-> "unset"]

\* Quantity.to_base_units().magnitude
BaseMagnitude(q) == ((q.magnitude + q.units.offset) * q.units.num) \div q.units.den

\* Quantity.to(spelling) / Quantity.ito(spelling), for a unit of q's dimension
QuantityTo(q, spelling) ==
    LET u == UnitRegistry(spelling)
    IN  [tag |-> "Quantity",
         magnitude |-> ((BaseMagnitude(q) * u.den) \div u.num) - u.offset,
         units |-> u]

\* Quantity.m_as(u): the magnitude of q in the unit u of q's dimension
m_as(q, u) == ((BaseMagnitude(q) * u.den) \div u.num) - u.offset

\* abs(n)
Abs(n) == IF n < 0 THEN 0 - n ELSE n

\* np.isclose(a, b) of two quantities of one dimension, with numpy's default
\* rtol = 1e-05 and atol = 1e-08: pint takes both magnitudes in the units of
\* a, and numpy tests |a - b| <= atol + rtol * |b|, here multiplied by 1e8.
isclose(a, b) ==
    Abs(a.magnitude - m_as(b, a.units))
        <= (1 + 1000 * Abs(m_as(b, a.units))) \div 100000000

(***************************************************************************)
(* CoolProp: the AbstractState backend                                      *)
(***************************************************************************)

\* CoolProp.iphase_*
iphase(name) ==
    CASE name = "liquid" -> 0
      [] name = "supercritical" -> 1
      [] name = "supercritical_gas" -> 2
      [] name = "supercritical_liquid" -> 3
      [] name = "critical_point" -> 4
      [] name = "gas" -> 5
      [] name = "twophase" -> 6
      [] name = "unknown" -> 7
      [] name = "not_imposed" -> 8

\* One equilibrium point of a fluid, in the backend's SI units.  Dmass is the
\* reciprocal of the specific volume as Reciprocal below carries it.
EqPoint(T, P, Dmass, Umass, Hmass, Smass, Q, Cpmass, Cvmass, Phase) ==
    [T |-> T, P |-> P, Dmass |-> Dmass, Umass |-> Umass, Hmass |-> Hmass,
     Smass |-> Smass, Q |-> Q, Cpmass |-> Cpmass, Cvmass |-> Cvmass,
     Phase |-> Phase]

WATER == <<"W", "A", "T", "E", "R">>
AIR == <<"A", "I", "R">>

\* The equation of state of each fluid, sampled: a superheated vapour, the
\* saturated liquid and the saturated vapour of one saturation temperature
\* and pressure, and two states of one volume whose temperatures are one
\* grid step apart, at a magnitude where np.isclose takes one step of the
\* kelvin scale for close.
EquationOfState(fluid) ==
    IF fluid = WATER
    THEN { EqPoint(400, 137900000, 1, 3489000, 4652000, 12561000, -1,
                   8374000, 4187000, iphase("gas")),
           EqPoint(375, 275800000, 4, 1163000, 2326000, 4187000, 0,
                   8374000, 4187000, iphase("twophase")),
           EqPoint(375, 275800000, 2, 2326000, 3489000, 8374000, 1,
                   8374000, 4187000, iphase("twophase")),
           EqPoint(500100, 413700000, 1, 5815000, 8141000, 16748000, -1,
                   8374000, 4187000, iphase("supercritical")),
           EqPoint(500105, 551600000, 1, 6978000, 9304000, 20935000, -1,
                   8374000, 4187000, iphase("supercritical")) }
    ELSE IF fluid = AIR
    THEN { EqPoint(400, 275800000, 1, 1163000, 2326000, 4187000, -1,
                   8374000, 4187000, iphase("supercritical")) }
    ELSE {}

\* The value of one backend property at a point.
PointValue(pt, name) ==
    CASE name = <<"T">> -> pt.T
      [] name = <<"P">> -> pt.P
      [] name = <<"Q">> -> pt.Q
      [] name = <<"D">> \o mass -> pt.Dmass
      [] name = <<"U">> \o mass -> pt.Umass
      [] name = <<"H">> \o mass -> pt.Hmass
      [] name = <<"S">> \o mass -> pt.Smass
      [] name = <<"C", "p">> \o mass -> pt.Cpmass
      [] name = <<"C", "v">> \o mass -> pt.Cvmass
      [] name = <<"P", "h", "a", "s", "e">> -> pt.Phase

BackendInputNames ==
    { <<"T">>, <<"P">>, <<"Q">>, <<"D">> \o mass, <<"U">> \o mass,
      <<"H">> \o mass, <<"S">> \o mass }

\* The two properties an input selector stands for, in the order of its name.
InputPairOf(inputs) ==
    CHOOSE pr \in BackendInputNames \X BackendInputNames :
        pr[1] \o pr[2] \o INPUTS = inputs

\* CoolProp.AbstractState("HEOS", fluid): a handle with no state yet.
AbstractState(fluid) == [fluid |-> fluid, point |-> Unset]

\* AbstractState.update(inputs, value1, value2): the handle afterwards and the
\* error raised, if any.  The solver clears the handle first; it fails with its
\* "Saturation pressure" message when T and p are given on the saturation
\* line, and with another message when it finds no solution.
update(handle, inputs, value1, value2) ==
    LET pr == InputPairOf(inputs)
        found == { pt \in EquationOfState(handle.fluid) :
                     /\ PointValue(pt, pr[1]) = value1
                     /\ PointValue(pt, pr[2]) = value2 }
    IN  IF inputs = <<"P", "T">> \o INPUTS
           /\ \E pt \in found : pt.Phase = iphase("twophase")
        THEN [handle |-> [handle EXCEPT !.point = Unset],
              error |-> "ValueError: Saturation pressure"]
        ELSE IF found = {}
        THEN [handle |-> [handle EXCEPT !.point = Unset],
              error |-> "ValueError: no solution"]
        ELSE [handle |-> [handle EXCEPT !.point = CHOOSE pt \in found : TRUE],
              error |-> "ok"]

\* AbstractState.keyed_output(CoolProp.i<name>)
keyed_output(handle, name) == PointValue(handle.point, Tail(name))

(***************************************************************************)
(* abbreviations.py: the display units of the two profiles                  *)
(***************************************************************************)

\* getattr(EnglishEngineering, prop, None)
EnglishEngineering(prop) ==
    CASE prop = <<"s">> -> Str("BTU/(lb*degR)")
      [] prop = <<"h">> -> Str("BTU/lb")
      [] prop = <<"T">> -> Str("degF")
      [] prop = <<"u">> -> Str("BTU/lb")
      [] prop = <<"v">> -> Str("ft**3/lb")
      [] prop = <<"p">> -> Str("psi")
      [] prop = <<"c", "p">> -> Str("BTU/(lb*degR)")
      [] prop = <<"c", "v">> -> Str("BTU/(lb*degR)")
      [] OTHER -> None

\* getattr(SystemInternational, prop, None)
SystemInternational(prop) ==
    CASE prop = <<"s">> -> Str("kJ/(kg*K)")
      [] prop = <<"h">> -> Str("kJ/kg")
      [] prop = <<"T">> -> Str("degC")
      [] prop = <<"u">> -> Str("kJ/kg")
      [] prop = <<"v">> -> Str("m**3/kg")
      [] prop = <<"p">> -> Str("bar")
      [] prop = <<"c", "v">> -> Str("kJ/(K*kg)")
      [] prop = <<"c", "p">> -> Str("kJ/(K*kg)")
      [] OTHER -> None

(***************************************************************************)
(* thermostate.py: module level                                             *)
(***************************************************************************)

\* An exception: its type, which message of the code it carries, and the
\* property names the message is formatted with.
Raise(type, msg, about) == [type |-> type, msg |-> msg, about |-> about]

NoError == Raise("ok", "", <<>>)

\* What a method leaves behind: the object, the exception that left it (or
\* NoError), and the backend updates it called, in order.
Outcome(self, raised, calls) == [self |-> self, raised |-> raised, calls |-> calls]

\* A variant of set_default_units without the test of line 40.
set_default_units_unchecked(default_units, units) ==
    [default_units |-> units, raised |-> NoError]

\* set_default_units(units): the new value of the global, and the exception.
set_default_units(default_units, units) ==
    IF units = None \/ units \in { Str("SI"), Str("EE") }
    THEN [default_units |-> units, raised |-> NoError]
    ELSE [default_units |-> default_units,
          raised |-> Raise("TypeError", "units not supported", <<>>)]

\* class CoolPropPhaseNames(enum.Enum): member name and value
CoolPropPhaseNamesMembers ==
    { [name |-> "critical_point", value |-> iphase("critical_point")],
      [name |-> "gas", value |-> iphase("gas")],
      [name |-> "liquid", value |-> iphase("liquid")],
      [name |-> "not_imposed", value |-> iphase("not_imposed")],
      [name |-> "supercritical", value |-> iphase("supercritical")],
      [name |-> "supercritical_gas", value |-> iphase("supercritical_gas")],
      [name |-> "supercritical_liquid", value |-> iphase("supercritical_liquid")],
      [name |-> "twophase", value |-> iphase("twophase")],
      [name |-> "unknown", value |-> iphase("unknown")] }

\* CoolPropPhaseNames(value).name
CoolPropPhaseNames(value) ==
    (CHOOSE m \in CoolPropPhaseNamesMembers : m.value = value).name

(***************************************************************************)
(* thermostate.py: class State                                              *)
(***************************************************************************)

_allowed_subs ==
    { AIR, <<"A", "M", "M", "O", "N", "I", "A">>, WATER,
      <<"P", "R", "O", "P", "A", "N", "E">>, <<"R", "1", "3", "4", "A">>,
      <<"R", "2", "2">>, <<"I", "S", "O", "B", "U", "T", "A", "N", "E">>,
      <<"C", "A", "R", "B", "O", "N", "D", "I", "O", "X", "I", "D", "E">>,
      <<"O", "X", "Y", "G", "E", "N">>, <<"N", "I", "T", "R", "O", "G", "E", "N">> }

_dimensions(p) ==
    CASE p = <<"T">> -> DimTemperature
      [] p = <<"p">> -> DimPressure
      [] p = <<"v">> -> DimVolume
      [] p = <<"u">> -> DimEnergy
      [] p = <<"h">> -> DimEnergy
      [] p = <<"s">> -> DimEntropy
      [] p = <<"x">> -> DimNone

_SI_units(prop) ==
    CASE prop = <<"T">> -> "kelvin"
      [] prop = <<"p">> -> "pascal"
      [] prop = <<"v">> -> "meter**3/kilogram"
      [] prop = <<"u">> -> "joules/kilogram"
      [] prop = <<"h">> -> "joules/kilogram"
      [] prop = <<"s">> -> "joules/(kilogram*kelvin)"
      [] prop = <<"x">> -> "dimensionless"
      [] prop = <<"c", "p">> -> "joules/(kilogram*kelvin)"
      [] prop = <<"c", "v">> -> "joules/(kilogram*kelvin)"

\* The names _set_properties stores under "_" + prop.
PrivateProps == _all_props \cup _read_only_props

\* A State object before __init__ has set anything: no attribute exists.
NewObject ==
    [_units |-> Unset, _label |-> Unset, sub |-> Unset, _abstract_state |-> Unset,
     _props |-> [prop \in PrivateProps |-> Unset]]

\* zip(properties, values): the index range both reach
ZipRange(properties, values) ==
    1..(IF Len(properties) < Len(values) THEN Len(properties) ELSE Len(values))

\* State.to_SI(prop, value)
to_SI(prop, value) == QuantityTo(value, _SI_units(prop))

\* State.to_PropsSI(prop, value)
to_PropsSI(prop, value) == to_SI(prop, value).magnitude

\* A variant of _check_values that takes zero for out of bounds as well.
_check_values_excluding_zero(properties, values) ==
    LET p(i) == <<properties[i]>>
        negative(i) == Contains(<<"T", "v", "p">>, p(i))
                       /\ BaseMagnitude(values[i]) <= 0
        quality(i) == /\ ~negative(i)
                      /\ p(i) = <<"x">>
                      /\ ~(0 < BaseMagnitude(values[i])
                           /\ BaseMagnitude(values[i]) <= 1)
        bad == { i \in ZipRange(properties, values) : negative(i) \/ quality(i) }
    IN  IF bad = {} THEN NoError
        ELSE LET i == CHOOSE j \in bad : \A k \in bad : j <= k
             IN  IF negative(i)
                 THEN Raise("StateError", "must be positive in absolute units", p(i))
                 ELSE Raise("StateError", "quality must be between 0 and 1", <<>>)

\* State._check_values(properties, values): the exception of the first pair
\* in zip order that fails.
_check_values(properties, values) ==
    LET p(i) == <<properties[i]>>
        negative(i) == Contains(<<"T", "v", "p">>, p(i))
                       /\ BaseMagnitude(values[i]) < 0
        quality(i) == /\ ~negative(i)
                      /\ p(i) = <<"x">>
                      /\ ~(0 <= BaseMagnitude(values[i])
                           /\ BaseMagnitude(values[i]) <= 1)
        bad == { i \in ZipRange(properties, values) : negative(i) \/ quality(i) }
    IN  IF bad = {} THEN NoError
        ELSE LET i == CHOOSE j \in bad : \A k \in bad : j <= k
             IN  IF negative(i)
                 THEN Raise("StateError", "must be positive in absolute units", p(i))
                 ELSE Raise("StateError", "quality must be between 0 and 1", <<>>)

\* State._check_dimensions(properties, values)
_check_dimensions(properties, values) ==
    LET p(i) == <<properties[i]>>
        bad == { i \in ZipRange(properties, values) :
                   values[i].units.dim # _dimensions(p(i)) }
    IN  IF bad = {} THEN NoError
        ELSE LET i == CHOOSE j \in bad : \A k \in bad : j <= k
             IN  Raise("StateError", "dimensions must be", p(i))

\* 1.0 / x, for x # 0.  Reciprocals are carried in quarters, so that those of
\* 1, 2 and 4 are exact and the reciprocal of a reciprocal is the number.
Reciprocal(x) == 4 \div x

\* The name under which _set_properties files a known property.
BackendName(prop) ==
    IF prop = <<"x">> THEN <<"Q">>
    ELSE IF prop = <<"v">> THEN <<"D">> \o mass
    ELSE Upper(prop) \o (IF prop \in { <<"T">>, <<"p">> } THEN <<>> ELSE mass)

\* The value _set_properties files for a known property.
BackendValue(prop, val) ==
    IF prop = <<"v">> THEN Reciprocal(to_PropsSI(prop, val))
    ELSE to_PropsSI(prop, val)

\* sorted(keys) of str keys without duplicates
sorted(keys) ==
    CHOOSE seq \in [1..Cardinality(keys) -> keys] :
        \A i, j \in 1..Cardinality(keys) : i < j => StrLess(seq[i], seq[j])

\* A variant of KnownState without the move_to_end loop: the keys stay in the
\* order of the letters given.
KnownState_as_given(known_props, known_values) ==
    [keys |-> [i \in ZipRange(known_props, known_values) |->
                 BackendName(<<known_props[i]>>)],
     values |-> [i \in ZipRange(known_props, known_values) |->
                   BackendValue(<<known_props[i]>>, known_values[i])],
     inputs |-> Join([i \in ZipRange(known_props, known_values) |->
                        BackendName(<<known_props[i]>>)]) \o INPUTS]

\* The update call _set_properties prepares: known_state after the
\* move_to_end loop (its keys in sorted order with their values), and the
\* name of the input selector.
KnownState(known_props, known_values) ==
    LET idx == ZipRange(known_props, known_values)
        name(i) == BackendName(<<known_props[i]>>)
        \* a later item of the same key overwrites the earlier one
        last(k) == CHOOSE i \in idx : name(i) = k /\ \A j \in idx : name(j) = k => j <= i
        keys == sorted({ name(i) : i \in idx })
    IN  [keys |-> keys,
         values |-> [n \in 1..Len(keys) |->
                       BackendValue(<<known_props[last(keys[n])]>>,
                                    known_values[last(keys[n])])],
         inputs |-> Join(keys) \o INPUTS]

\* str.title() of a property name
Title(prop) == <<UpperChar(prop[1])>> \o Lower(Tail(prop))

\* A variant of PropertyValue without lines 428-430: the quality is stored as
\* the backend reports it, the sentinel included.
PropertyValue_keeping_sentinel(handle, units, prop) ==
    LET raw ==
          IF prop = <<"v">>
          THEN Q_(Reciprocal(keyed_output(handle, <<"i", "D">> \o mass)),
                  _SI_units(prop))
          ELSE IF prop = <<"x">>
          THEN Q_(keyed_output(handle, <<"i", "Q">>), _SI_units(prop))
          ELSE IF prop = <<"p", "h", "a", "s", "e">>
          THEN Str(CoolPropPhaseNames(keyed_output(handle, <<"i", "P", "h", "a", "s", "e">>)))
          ELSE LET postfix == IF Contains(<<"T", "p">>, prop) THEN <<>> ELSE mass
               IN  Q_(keyed_output(handle, <<"i">> \o Title(prop) \o postfix),
                      _SI_units(prop))
        set_units ==
          IF units = Str("SI") THEN SystemInternational(prop)
          ELSE IF units = Str("EE") THEN EnglishEngineering(prop)
          ELSE None
    IN  IF set_units # None THEN QuantityTo(raw, set_units.s) ELSE raw

\* The value the second loop of _set_properties stores for prop, given the
\* units tag of the State.
PropertyValue(handle, units, prop) ==
    LET raw ==
          IF prop = <<"v">>
          THEN Q_(Reciprocal(keyed_output(handle, <<"i", "D">> \o mass)),
                  _SI_units(prop))
          ELSE IF prop = <<"x">>
          THEN LET x == keyed_output(handle, <<"i", "Q">>)
               IN  IF x = -1 THEN None ELSE Q_(x, _SI_units(prop))
          ELSE IF prop = <<"p", "h", "a", "s", "e">>
          THEN Str(CoolPropPhaseNames(keyed_output(handle, <<"i", "P", "h", "a", "s", "e">>)))
          ELSE LET postfix == IF Contains(<<"T", "p">>, prop) THEN <<>> ELSE mass
               IN  Q_(keyed_output(handle, <<"i">> \o Title(prop) \o postfix),
                      _SI_units(prop))
        set_units ==
          IF units = Str("SI") THEN SystemInternational(prop)
          ELSE IF units = Str("EE") THEN EnglishEngineering(prop)
          ELSE None
    IN  IF set_units # None THEN QuantityTo(raw, set_units.s) ELSE raw

\* A variant of set_slots that skips a value of None, which leaves the slot
\* as it was.
set_slots_skipping_none(self, handle) ==
    [self EXCEPT !._abstract_state = handle,
                 !._props = [prop \in PrivateProps |->
                               IF PropertyValue(handle, self._units, prop) = None
                               THEN self._props[prop]
                               ELSE PropertyValue(handle, self._units, prop)]]

\* State._set_properties, lines 423-451: every slot set from the backend
\* handle the update resolved.
set_slots(self, handle) ==
    [self EXCEPT !._abstract_state = handle,
                 !._props = [prop \in PrivateProps |->
                               PropertyValue(handle, self._units, prop)]]

\* A variant of after_update that drops the slots of the earlier resolution
\* when the update fails.
after_update_clearing(self, known_props, call, res) ==
    IF res.error = "ok"
    THEN Outcome(set_slots(self, res.handle), NoError, <<call>>)
    ELSE Outcome([self EXCEPT !._abstract_state = res.handle,
                              !._props = [prop \in PrivateProps |-> Unset]],
                 Raise("ValueError", res.error, <<>>),
                 <<call>>)

\* A variant of after_update that calls update a second time when the first
\* call fails.
after_update_retrying(self, known_props, call, res) ==
    IF res.error = "ok"
    THEN Outcome(set_slots(self, res.handle), NoError, <<call>>)
    ELSE Outcome([self EXCEPT !._abstract_state = res.handle],
                 Raise("ValueError", res.error, <<>>),
                 <<call, call>>)

\* A variant of after_update whose "not independent" error names the two
\* properties in the order of the backend's inputs.
after_update_naming_inputs(self, known_props, call, res) ==
    IF res.error = "ValueError: Saturation pressure"
    THEN Outcome([self EXCEPT !._abstract_state = res.handle],
                 Raise("StateError", "not independent",
                       IF StrLess(BackendName(<<known_props[2]>>),
                                  BackendName(<<known_props[1]>>))
                       THEN <<known_props[2], known_props[1]>>
                       ELSE <<known_props[1], known_props[2]>>),
                 <<call>>)
    ELSE IF res.error # "ok"
    THEN Outcome([self EXCEPT !._abstract_state = res.handle],
                 Raise("ValueError", res.error, <<>>),
                 <<call>>)
    ELSE Outcome(set_slots(self, res.handle), NoError, <<call>>)

\* State._set_properties, lines 411-421: what follows the update call, whose
\* outcome is res.
after_update(self, known_props, call, res) ==
    IF res.error = "ValueError: Saturation pressure"
    THEN Outcome([self EXCEPT !._abstract_state = res.handle],
                 Raise("StateError", "not independent",
                       <<known_props[1], known_props[2]>>),
                 <<call>>)
    ELSE IF res.error # "ok"
    THEN Outcome([self EXCEPT !._abstract_state = res.handle],
                 Raise("ValueError", res.error, <<>>),
                 <<call>>)
    ELSE Outcome(set_slots(self, res.handle), NoError, <<call>>)

\* State._set_properties, lines 410-412: the input selector is looked up and
\* update is called with the values of known_state.
call_update(self, known_props, known_state) ==
    IF known_state.inputs \notin CoolPropConstants
    THEN Outcome(self, Raise("AttributeError", "module has no attribute", <<>>), <<>>)
    ELSE after_update(self, known_props,
                      [inputs |-> known_state.inputs, values |-> known_state.values],
                      update(self._abstract_state, known_state.inputs,
                             known_state.values[1], known_state.values[2]))

\* State._set_properties(known_props, known_values)
_set_properties(self, known_props, known_values) ==
    IF \E i \in ZipRange(known_props, known_values) :
          /\ known_props[i] = "v"
          /\ to_PropsSI(<<"v">>, known_values[i]) = 0
    THEN Outcome(self, Raise("ZeroDivisionError", "float division by zero", <<>>), <<>>)
    ELSE call_update(self, known_props, KnownState(known_props, known_values))

\* hasattr(self, "T") / object.__getattribute__(self, "_" + key) succeeds
HasPrivate(self, prop) == self._props[prop] # Unset

\* A variant of __getattr__ that returns a pair in the order of the registry's
\* comprehension, whatever the order of the letters of the name.
__getattr__registry_order(self, key) ==
    IF key \in _all_pairs /\ key \notin _all_pairs_comprehension
    THEN [value |-> [tag |-> "tuple",
                     items |-> <<self._props[<<key[2]>>], self._props[<<key[1]>>]>>],
          raised |-> IF HasPrivate(self, <<key[1]>>) /\ HasPrivate(self, <<key[2]>>)
                     THEN NoError
                     ELSE Raise("AttributeError", "no attribute", key)]
    ELSE [value |-> IF Len(key) = 2
                    THEN [tag |-> "tuple",
                          items |-> <<self._props[<<key[1]>>], self._props[<<key[2]>>]>>]
                    ELSE self._props[key],
          raised |-> IF \A i \in 1..Len(key) : HasPrivate(self, <<key[i]>>)
                     THEN NoError
                     ELSE Raise("AttributeError", "no attribute", key)]

\* State.__getattr__(key): the value returned, and the exception
__getattr__(self, key) ==
    LET missing == [value |-> Unset,
                    raised |-> Raise("AttributeError", "no attribute", key)]
        private(prop) ==
            IF HasPrivate(self, prop)
            THEN [value |-> self._props[prop], raised |-> NoError]
            ELSE missing
    IN  IF key \in _all_props THEN private(key)
        ELSE IF key \in _all_pairs
        THEN IF HasPrivate(self, <<key[1]>>) /\ HasPrivate(self, <<key[2]>>)
             THEN [value |-> [tag |-> "tuple",
                              items |-> <<self._props[<<key[1]>>],
                                          self._props[<<key[2]>>]>>],
                   raised |-> NoError]
             ELSE missing
        ELSE IF key = <<"p", "h", "a", "s", "e">> THEN private(key)
        ELSE IF key \in _read_only_props THEN private(key)
        ELSE [value |-> Unset, raised |-> Raise("AttributeError", "Unknown attribute", key)]

\* Python's bool, NotImplemented, and what a method hands back: the value
\* returned, or the exception raised.
Bool(b) == [tag |-> "bool", b |-> b]

NotImplemented == [tag |-> "NotImplemented"]

Returns(value) == [value |-> value, raised |-> NoError]

Raises(raised) == [value |-> None, raised |-> raised]

\* isinstance(value, State): every other value of the model carries a tag
IsState(value) == "tag" \notin DOMAIN value

\* State.__eq__, lines 264-268: the two np.isclose tests, once both
\* temperatures have been read.
eq_close(self, other) ==
    IF ~isclose(__getattr__(other, <<"T">>).value, __getattr__(self, <<"T">>).value)
    THEN Returns(Bool(FALSE))
    ELSE Returns(Bool(isclose(__getattr__(other, <<"v">>).value,
                              __getattr__(self, <<"v">>).value)))

\* State.__eq__(self, other).  The "and" of lines 262-265 reads other.T
\* before self.T, and neither when the substances differ.
__eq__(self, other) ==
    IF ~IsState(other) THEN Returns(NotImplemented)
    ELSE IF self.sub # other.sub THEN Returns(Bool(FALSE))
    ELSE IF __getattr__(other, <<"T">>).raised # NoError
    THEN Raises(__getattr__(other, <<"T">>).raised)
    ELSE IF __getattr__(self, <<"T">>).raised # NoError
    THEN Raises(__getattr__(self, <<"T">>).raised)
    ELSE eq_close(self, other)

\* State.__le__(self, other)
__le__(self, other) == Returns(NotImplemented)

\* A variant of __lt__ that answers the comparison.
__lt__returning_false(self, other) == Returns(Bool(FALSE))

\* State.__lt__(self, other)
__lt__(self, other) == Returns(NotImplemented)

\* State.__gt__(self, other)
__gt__(self, other) == Returns(NotImplemented)

\* State.__ge__(self, other)
__ge__(self, other) == Returns(NotImplemented)

\* The comparison method of the class of a value: those of State, and those
\* of the built-in values, which return NotImplemented for a State.
ComparisonMethod(method, self, other) ==
    IF ~IsState(self) THEN Returns(NotImplemented)
    ELSE CASE method = "__eq__" -> __eq__(self, other)
           [] method = "__le__" -> __le__(self, other)
           [] method = "__lt__" -> __lt__(self, other)
           [] method = "__gt__" -> __gt__(self, other)
           [] method = "__ge__" -> __ge__(self, other)

\* The method Python tries on the right operand when the left one returns
\* NotImplemented.
ReflectedMethod(method) ==
    CASE method = "__eq__" -> "__eq__"
      [] method = "__le__" -> "__ge__"
      [] method = "__lt__" -> "__gt__"
      [] method = "__gt__" -> "__lt__"
      [] method = "__ge__" -> "__le__"

\* What Python makes of two NotImplemented: == compares the identities of
\* the two objects, which are two, and an ordering raises TypeError.
NoMethodApplies(method) ==
    IF method = "__eq__" THEN Returns(Bool(FALSE))
    ELSE Raises(Raise("TypeError", "not supported between instances", <<>>))

\* The second half of Python's comparison, once the left operand's method
\* has returned NotImplemented: reflected is what the right operand's gives.
AfterReflected(method, reflected) ==
    IF reflected.raised # NoError \/ reflected.value # NotImplemented
    THEN reflected
    ELSE NoMethodApplies(method)

\* The first half of Python's comparison: first is what the left operand's
\* method gives.
AfterFirst(method, self, other, first) ==
    IF first.raised # NoError \/ first.value # NotImplemented
    THEN first
    ELSE AfterReflected(method, ComparisonMethod(ReflectedMethod(method), other, self))

\* self <op> other, for the operator whose method is named
RichCompare(method, self, other) ==
    AfterFirst(method, self, other, ComparisonMethod(method, self, other))

\* str(value) for a label: the string, or Unset when __str__ raises
PyStr(value) ==
    CASE value.tag = "str" -> Str(value.s)
      [] value.tag = "int" /\ value.n = 1 -> Str("1")
      [] value.tag = "int" /\ value.n = 2 -> Str("2")
      [] OTHER -> Unset

\* State.label (setter)
label_setter(self, value) ==
    IF value = None THEN Outcome([self EXCEPT !._label = value], NoError, <<>>)
    ELSE IF PyStr(value) = Unset
    THEN Outcome(self, Raise("TypeError", "label could not be converted", <<>>), <<>>)
    ELSE Outcome([self EXCEPT !._label = PyStr(value)], NoError, <<>>)

\* A variant of setattr_pair that files the value given to the name of a
\* single property, a read-only one included, in the slot of that property.
setattr_pair_storing_single(self, key, value) ==
    IF key \in PrivateProps
    THEN Outcome([self EXCEPT !._props[key] = value[1]], NoError, <<>>)
    ELSE IF key \in _allowed_pairs
    THEN IF _check_dimensions(key, value) # NoError
         THEN Outcome(self, _check_dimensions(key, value), <<>>)
         ELSE IF _check_values(key, value) # NoError
         THEN Outcome(self, _check_values(key, value), <<>>)
         ELSE _set_properties(self, key, value)
    ELSE IF key \in _unsupported_pairs
    THEN Outcome(self, Raise("StateError", "isn't supported yet", key), <<>>)
    ELSE Outcome(self, Raise("AttributeError", "Unknown attribute", key), <<>>)

\* A variant of setattr_pair that checks the values before the dimensions.
setattr_pair_values_first(self, key, value) ==
    IF key \in _allowed_pairs
    THEN IF _check_values(key, value) # NoError
         THEN Outcome(self, _check_values(key, value), <<>>)
         ELSE IF _check_dimensions(key, value) # NoError
         THEN Outcome(self, _check_dimensions(key, value), <<>>)
         ELSE _set_properties(self, key, value)
    ELSE IF key \in _unsupported_pairs
    THEN Outcome(self, Raise("StateError", "isn't supported yet", key), <<>>)
    ELSE Outcome(self, Raise("AttributeError", "Unknown attribute", key), <<>>)

\* The branches of State.__setattr__ for a key that is none of sub, label and
\* units.  A pair's value is a tuple of Quantities.
setattr_pair(self, key, value) ==
    IF key \in _allowed_pairs
    THEN IF _check_dimensions(key, value) # NoError
         THEN Outcome(self, _check_dimensions(key, value), <<>>)
         ELSE IF _check_values(key, value) # NoError
         THEN Outcome(self, _check_values(key, value), <<>>)
         ELSE _set_properties(self, key, value)
    ELSE IF key \in _unsupported_pairs
    THEN Outcome(self, Raise("StateError", "isn't supported yet", key), <<>>)
    ELSE Outcome(self, Raise("AttributeError", "Unknown attribute", key), <<>>)

\* A variant of units_setter that takes None for "no change": the tag and the
\* slots stay as they were.
units_setter_none_keeps_tag(self, value) ==
    IF value = None THEN Outcome(self, NoError, <<>>)
    ELSE IF value \in { Str("EE"), Str("SI") }
    THEN LET tagged == [self EXCEPT !._units = value]
         IN  IF __getattr__(tagged, <<"T">>).raised = NoError
             THEN setattr_pair(tagged, <<"T", "v">>,
                               <<__getattr__(tagged, <<"T">>).value,
                                 __getattr__(tagged, <<"v">>).value>>)
             ELSE Outcome(tagged, NoError, <<>>)
    ELSE Outcome(self, Raise("TypeError", "units not supported", <<>>), <<>>)

\* A variant of units_setter that stores the tag and leaves the slots alone.
units_setter_tag_only(self, value) ==
    IF value = None \/ value \in { Str("EE"), Str("SI") }
    THEN Outcome([self EXCEPT !._units = value], NoError, <<>>)
    ELSE Outcome(self, Raise("TypeError", "units not supported", <<>>), <<>>)

\* A variant of units_setter that re-assigns Tv with the magnitudes of T and v
\* as stored, labelled with the units of the new tag.
units_setter_relabelling(self, value) ==
    IF value = None \/ value \in { Str("EE"), Str("SI") }
    THEN LET tagged == [self EXCEPT !._units = value]
             unit(prop) == IF value = Str("SI") THEN SystemInternational(prop).s
                           ELSE IF value = Str("EE") THEN EnglishEngineering(prop).s
                           ELSE _SI_units(prop)
         IN  IF __getattr__(tagged, <<"T">>).raised = NoError
             THEN setattr_pair(tagged, <<"T", "v">>,
                               <<Q_(__getattr__(tagged, <<"T">>).value.magnitude,
                                    unit(<<"T">>)),
                                 Q_(__getattr__(tagged, <<"v">>).value.magnitude,
                                    unit(<<"v">>))>>)
             ELSE Outcome(tagged, NoError, <<>>)
    ELSE Outcome(self, Raise("TypeError", "units not supported", <<>>), <<>>)

\* State.units (setter).  setattr(self, "Tv", ...) reaches __setattr__ with a
\* pair name.
units_setter(self, value) ==
    IF value = None \/ value \in { Str("EE"), Str("SI") }
    THEN LET tagged == [self EXCEPT !._units = value]
         IN  IF __getattr__(tagged, <<"T">>).raised = NoError
             THEN setattr_pair(tagged, <<"T", "v">>,
                               <<__getattr__(tagged, <<"T">>).value,
                                 __getattr__(tagged, <<"v">>).value>>)
             ELSE Outcome(tagged, NoError, <<>>)
    ELSE Outcome(self, Raise("TypeError", "units not supported", <<>>), <<>>)

\* State.__setattr__(key, value): object.__setattr__ for sub, label and units
\* (the latter two are properties with setters), the pair branches otherwise.
__setattr__(self, key, value) ==
    IF key = <<"s", "u", "b">> THEN Outcome([self EXCEPT !.sub = value], NoError, <<>>)
    ELSE IF key = <<"l", "a", "b", "e", "l">> THEN label_setter(self, value)
    ELSE IF key = <<"u", "n", "i", "t", "s">> THEN units_setter(self, value)
    ELSE setattr_pair(self, key, value)

\* kwargs[name]
KwValue(kwargs, name) ==
    kwargs.values[CHOOSE i \in 1..Len(kwargs.names) : kwargs.names[i] = name]

\* A variant of init_kwargs whose arity check lets a single keyword through.
init_kwargs_at_most_two(self, kwargs, input_props) ==
    IF \E i \in 1..Len(kwargs.names) : kwargs.names[i] \notin _all_props
    THEN Outcome(self, Raise("ValueError", "argument is not allowed", <<>>), <<>>)
    ELSE IF Len(input_props) > 2
    THEN Outcome(self,
                 Raise("ValueError", "Incorrect number of properties", <<>>),
                 <<>>)
    ELSE IF Len(input_props) > 0 /\ input_props \notin _allowed_pairs
    THEN Outcome(self, Raise("StateError", "isn't supported yet", input_props), <<>>)
    ELSE IF Len(input_props) > 0
    THEN __setattr__(self, input_props,
                     <<KwValue(kwargs, <<input_props[1]>>),
                       KwValue(kwargs, <<input_props[2]>>)>>)
    ELSE Outcome(self, NoError, <<>>)

\* State.__init__, lines 302-321: the keyword arguments, once the backend
\* handle exists.  input_props is the concatenation of the keyword names.
init_kwargs(self, kwargs, input_props) ==
    IF \E i \in 1..Len(kwargs.names) : kwargs.names[i] \notin _all_props
    THEN Outcome(self,
                 Raise("ValueError", "argument is not allowed",
                       kwargs.names[CHOOSE i \in 1..Len(kwargs.names) :
                                       /\ kwargs.names[i] \notin _all_props
                                       /\ \A j \in 1..(i - 1) :
                                             kwargs.names[j] \in _all_props]),
                 <<>>)
    ELSE IF Len(input_props) > 2 \/ Len(input_props) = 1
    THEN Outcome(self,
                 Raise("ValueError", "Incorrect number of properties", <<>>),
                 <<>>)
    ELSE IF Len(input_props) > 0 /\ input_props \notin _allowed_pairs
    THEN Outcome(self, Raise("StateError", "isn't supported yet", input_props), <<>>)
    ELSE IF Len(input_props) > 0
    THEN __setattr__(self, input_props,
                     <<KwValue(kwargs, <<input_props[1]>>),
                       KwValue(kwargs, <<input_props[2]>>)>>)
    ELSE Outcome(self, NoError, <<>>)

\* State.__init__, lines 292-300: the substance and the backend handle, once
\* units and label are set.
init_substance(self, substance, kwargs) ==
    IF Upper(substance) \in _allowed_subs
    THEN init_kwargs(
            [__setattr__(self, <<"s", "u", "b">>, Str(Upper(substance))).self
               EXCEPT !._abstract_state = AbstractState(Upper(substance))],
            kwargs, Join(kwargs.names))
    ELSE Outcome(self,
                 Raise("ValueError", "is not an allowed substance", substance),
                 <<>>)

\* State.__init__, from line 292 on.  set_label is the outcome of line 290.
init_label_set(set_label, substance, kwargs) ==
    IF set_label.raised # NoError THEN set_label
    ELSE init_substance(set_label.self, substance, kwargs)

\* State.__init__, line 290: self.label = label, once units is set.  set_units
\* is the outcome of line 288.
init_label(set_units, substance, label, kwargs) ==
    IF set_units.raised # NoError THEN set_units
    ELSE init_label_set(__setattr__(set_units.self, <<"l", "a", "b", "e", "l">>, label),
                        substance, kwargs)

\* A variant of __init__ without lines 286-287: a units of None stays None.
__init__ignoring_default(default_units, substance, label, units, kwargs) ==
    init_label(__setattr__(NewObject, <<"u", "n", "i", "t", "s">>, units),
               substance, label, kwargs)

\* State.__init__(substance, label, units, **kwargs), under the module's
\* default_units.  kwargs holds the keyword names and their values in the
\* order they were given.
__init__(default_units, substance, label, units, kwargs) ==
    init_label(__setattr__(NewObject, <<"u", "n", "i", "t", "s">>,
                           IF units = None THEN default_units ELSE units),
               substance, label, kwargs)

(***************************************************************************)
(* plotting.py: class PlottingBase                                          *)
(***************************************************************************)

\* A dict, which keeps its items in the order their keys were first set: a
\* sequence of items, no two of one key.
DictKeys(d) == { d[n].key : n \in 1..Len(d) }

\* d[key]
DictGet(d, key) == d[CHOOSE n \in 1..Len(d) : d[n].key = key].value

\* d[key] = value: an existing key keeps its place
DictSet(d, key, value) ==
    IF key \in DictKeys(d)
    THEN [n \in 1..Len(d) |->
            IF d[n].key = key THEN [key |-> key, value |-> value] ELSE d[n]]
    ELSE Append(d, [key |-> key, value |-> value])

\* del d[key]
DictDel(d, key) == SelectSeq(d, LAMBDA item : item.key # key)

\* A reference to the State object number id of the heap.
Ref(id) == [tag |-> "State", id |-> id]

\* repr(state): State defines no __repr__, so this is object.__repr__, which
\* names the address of the object and is one string per live object.
repr(state) ==
    <<"<", "S", "t", "a", "t", "e", "@">>
    \o <<CASE state.id = 1 -> "1" [] state.id = 2 -> "2" [] state.id = 3 -> "3"
           [] OTHER -> "4">>
    \o <<">">>

\* @dataclass PlottedState
PlottedState(key, state, markers) == [key |-> key, state |-> state, markers |-> markers]

\* PlottingBase.allowed_processes: the keys, and the value of a key
allowed_processes_keys ==
    { "isochoric", "isovolumetric", "isometric", "isobaric", "isothermal",
      "isoenergetic", "isoenthalpic", "isentropic" }

allowed_processes(process_type) ==
    CASE process_type \in { "isochoric", "isovolumetric", "isometric" } -> "v"
      [] process_type = "isobaric" -> "p"
      [] process_type = "isothermal" -> "T"
      [] process_type = "isoenergetic" -> "u"
      [] process_type = "isoenthalpic" -> "h"
      [] process_type = "isentropic" -> "s"

\* What a method of the plot manager leaves behind: the State objects, the
\* two registries, and the exception that left it (or NoError).
Managed(objects, states, processes, raised) ==
    [objects |-> objects, states |-> states, processes |-> processes, raised |-> raised]

\* The magnitude of what getattr(state, axis) has returned or raised.
magnitude(got) ==
    IF got.raised # NoError
    THEN Raises(got.raised)
    ELSE IF got.value = None
    THEN Raises(Raise("AttributeError", "'NoneType' object has no attribute", <<>>))
    ELSE Returns(got.value.magnitude)

\* getattr(state, axis).magnitude
AxisMagnitude(self, axis) == magnitude(__getattr__(self, <<axis>>))

\* The Line2D that axis.plot returns, an object of matplotlib: the model
\* keeps that there is one, not the data drawn.
Line2D == [tag |-> "Line2D"]

\* The first exception among those of reading axis a of plot n from State
\* m, for each <<n, m, a>>, in the order the loops read them, or NoError.
FirstRaised(got) ==
    LET reads == { r \in DOMAIN got : got[r] # NoError }
        first == CHOOSE r \in reads :
                   \A q \in reads :
                      \/ r[1] < q[1]
                      \/ r[1] = q[1] /\ r[2] < q[2]
                      \/ r[1] = q[1] /\ r[2] = q[2] /\ r[3] <= q[3]
    IN  IF reads = {} THEN NoError ELSE got[first]

\* The first exception of reading the two axes of each plot from the States
\* given, in the order the loops read them, or NoError.
ReadingRaised(plots, selves) ==
    FirstRaised([r \in (1..Len(plots)) \X (1..Len(selves)) \X {1, 2} |->
                   AxisMagnitude(selves[r[2]], plots[r[1]].key[r[3]]).raised])

\* PlottingBase.add_state, lines 73-94, once the label is set and the axes
\* of every plot are read: reading is the first exception of lines 75-84.
add_state_read(objects, states, processes, plots, state, key, labelled, reading) ==
    IF reading # NoError
    THEN Managed([objects EXCEPT ![state.id] = labelled.self], states, processes,
                 reading)
    ELSE Managed([objects EXCEPT ![state.id] = labelled.self],
                 DictSet(states, key,
                         PlottedState(key, state,
                                      [n \in 1..Len(plots) |->
                                         [key |-> plots[n].key, value |-> Line2D]])),
                 processes, NoError)

\* PlottingBase.add_state, lines 73-94, once the label is set: labelled is
\* the outcome of line 71.
add_state_plotted(objects, states, processes, plots, state, key, labelled) ==
    IF labelled.raised # NoError
    THEN Managed(objects, states, processes, labelled.raised)
    ELSE add_state_read(objects, states, processes, plots, state, key, labelled,
                        ReadingRaised(plots, <<labelled.self>>))

\* PlottingBase.add_state(state, key, label).  A key or a label is None or
\* a str, a state a reference.
add_state(objects, states, processes, plots, state, key, label) ==
    add_state_plotted(objects, states, processes, plots, state,
                      IF key = None THEN repr(state) ELSE key.s,
                      IF label # None
                      THEN __setattr__(objects[state.id], <<"l", "a", "b", "e", "l">>, label)
                      ELSE Outcome(objects[state.id], NoError, <<>>))

\* PlottingBase.remove_state, lines 107-112: the first item, in the order of
\* the dict, whose State compares equal to the one given.
remove_state_first(states, equal) ==
    LET stops == { n \in 1..Len(states) :
                     equal[n].raised # NoError \/ equal[n].value = Bool(TRUE) }
        first == CHOOSE n \in stops : \A m \in stops : n <= m
    IN  IF stops = {}
        THEN [found |-> None, raised |-> Raise("ValueError", "Couldn't find the state", <<>>)]
        ELSE IF equal[first].raised # NoError
        THEN [found |-> None, raised |-> equal[first].raised]
        ELSE [found |-> states[first].value, raised |-> NoError]

\* PlottingBase.remove_state, lines 107-112: state == s_2.state for each item
\* of the dict.
remove_state_equal(objects, states, state) ==
    remove_state_first(states,
                       [n \in 1..Len(states) |->
                          RichCompare("__eq__", objects[state.id],
                                      objects[states[n].value.state.id])])

\* PlottingBase.remove_state, lines 98-112: the PlottedState to be removed
state_to_be_removed(objects, states, state, key) ==
    IF state = None /\ key = None
    THEN [found |-> None, raised |-> Raise("ValueError", "No state or key was entered", <<>>)]
    ELSE IF state # None /\ repr(state) \in DictKeys(states)
    THEN [found |-> DictGet(states, repr(state)), raised |-> NoError]
    ELSE IF key # None /\ key.s \in DictKeys(states)
    THEN [found |-> DictGet(states, key.s), raised |-> NoError]
    ELSE IF key # None /\ key.s \notin DictKeys(states) /\ state = None
    THEN [found |-> None, raised |-> Raise("ValueError", "Couldn't find key", <<>>)]
    ELSE remove_state_equal(objects, states, state)

\* PlottingBase.remove_state, lines 114-116
remove_state_found(objects, states, processes, removed) ==
    IF removed.raised # NoError
    THEN Managed(objects, states, processes, removed.raised)
    ELSE Managed(objects, DictDel(states, removed.found.key), processes, NoError)

\* PlottingBase.remove_state(state, key)
remove_state(objects, states, processes, state, key) ==
    remove_state_found(objects, states, processes,
                       state_to_be_removed(objects, states, state, key))

\* The loops of lines 138-142 and 212-218: the key of the last item, in the
\* order of the dict, that holds the State given, or None.
KeyOf(states, state) ==
    LET holds == { n \in 1..Len(states) : states[n].value.state = state }
    IN  IF holds = {} THEN None
        ELSE Str(states[CHOOSE n \in holds : \A m \in holds : m <= n].key)

\* PlottingBase.remove_process, lines 149-150: remove_state for each State
\* of todo in turn, up to the first that raises.
RECURSIVE remove_states_of(_, _)
remove_states_of(managed, todo) ==
    IF todo = <<>> \/ managed.raised # NoError THEN managed
    ELSE remove_states_of(remove_state(managed.objects, managed.states,
                                       managed.processes, Head(todo), None),
                          Tail(todo))

\* PlottingBase.remove_process, lines 148-150: once the process is deleted,
\* or the exception of lines 144-146 is raised.
remove_process_states(deleted, state_1, state_2, remove_states) ==
    IF deleted.raised # NoError \/ ~remove_states THEN deleted
    ELSE remove_states_of(deleted, <<state_1, state_2>>)

\* PlottingBase.remove_process(state_1, state_2, remove_states)
remove_process(objects, states, processes, state_1, state_2, remove_states) ==
    remove_process_states(
        IF KeyOf(states, state_1) = None \/ KeyOf(states, state_2) = None
        THEN Managed(objects, states, processes,
                     Raise("TypeError", "unsupported operand type(s) for +", <<>>))
        ELSE IF KeyOf(states, state_1).s \o KeyOf(states, state_2).s
                  \notin DictKeys(processes)
        THEN Managed(objects, states, processes, Raise("KeyError", "", <<>>))
        ELSE Managed(objects, states,
                     DictDel(processes,
                             KeyOf(states, state_1).s \o KeyOf(states, state_2).s),
                     NoError),
        state_1, state_2, remove_states)

\* PlottingBase.add_process, lines 232-253: np.logspace from the magnitude
\* of state_1 to that of state_2, of which the model keeps the two ends.
\* The offsets of lines 243-252, of one part in 1e12, are below the grid.
v_range(state_1, state_2, process_type) ==
    [i \in 1..2 |->
       Q_(__getattr__(<<state_1, state_2>>[i],
                      <<IF process_type.s \in { "isochoric", "isovolumetric", "isometric" }
                        THEN "p" ELSE "v">>).value.magnitude,
          IF process_type.s \in { "isochoric", "isovolumetric", "isometric" }
          THEN "pascal" ELSE "m**3/kg")]

\* PlottingBase.add_process, lines 274-285: the pair assigned to the sampled
\* State for a process type, and the tuple assigned for the value v.
SamplePair(process_type) ==
    CASE process_type.s \in { "isochoric", "isovolumetric", "isometric" } -> <<"p", "v">>
      [] process_type.s = "isobaric" -> <<"p", "v">>
      [] process_type.s = "isothermal" -> <<"T", "v">>
      [] process_type.s = "isoenergetic" -> <<"u", "v">>
      [] process_type.s = "isoenthalpic" -> <<"h", "v">>
      [] process_type.s = "isentropic" -> <<"s", "v">>

SampleValue(state_1, process_type, v) ==
    [i \in 1..2 |->
       IF (i = 1) = (process_type.s \in { "isochoric", "isovolumetric", "isometric" })
       THEN v
       ELSE __getattr__(state_1,
                        <<IF process_type.s \in { "isochoric", "isovolumetric", "isometric" }
                          THEN "v" ELSE SamplePair(process_type)[1]>>).value]

\* The loop of lines 273-288 from the n-th value on: last is the outcome of
\* the assignment before, and selves the States read so far.  An exception
\* ends the loop.
RECURSIVE SampleFrom(_, _, _, _, _, _)
SampleFrom(last, selves, state_1, process_type, values, n) ==
    IF last.raised # NoError THEN [selves |-> <<>>, raised |-> last.raised]
    ELSE IF n > Len(values)
    THEN [selves |-> Append(selves, last.self), raised |-> NoError]
    ELSE SampleFrom(__setattr__(last.self, SamplePair(process_type),
                                SampleValue(state_1, process_type, values[n])),
                    IF n = 1 THEN selves ELSE Append(selves, last.self),
                    state_1, process_type, values, n + 1)

\* PlottingBase.add_process, lines 272-288, for one plot: the States the
\* line is read from, one per value of the range, sampled on a State new at
\* line 272; or the first exception.  For no process type the line is read
\* from state_1 and state_2 (lines 262-265).
Sampled(default_units, state_1, state_2, process_type) ==
    IF process_type = None
    THEN [selves |-> <<state_1, state_2>>, raised |-> NoError]
    ELSE SampleFrom(__init__(default_units, state_1.sub.s, None, None,
                             [names |-> <<>>, values |-> <<>>]),
                    <<>>, state_1, process_type,
                    v_range(state_1, state_2, process_type), 1)

\* A variant of after_sampling in which the State sampled on is state_1
\* itself, which is left at the last value assigned.
after_sampling_on_state_1(objects, state_1, selves) ==
    IF selves = <<>> THEN objects
    ELSE [objects EXCEPT ![state_1.id]._props = selves[Len(selves)]._props,
                         ![state_1.id]._abstract_state = selves[Len(selves)]._abstract_state]

\* The State objects after the loop of lines 272-288: the State sampled on
\* is local to add_process, and state_1 and state_2 are only read.
after_sampling(objects, state_1, selves) == objects

\* PlottingBase.add_process, lines 255-293, once processes[plot_key] is an
\* empty dict: read is what the line of a plot is read from, the same for
\* every plot, and stop the first plot whose reading raises.  A line is
\* stored for each plot before it.
add_process_drawn(added, plots, state_1, plot_key, process_type, read, stop) ==
    Managed(IF process_type = None \/ plots = <<>> THEN added.objects
            ELSE after_sampling(added.objects, state_1, read.selves),
            added.states,
            DictSet(added.processes, plot_key,
                    [n \in 1..(IF plots = <<>> THEN 0
                               ELSE IF read.raised # NoError THEN 0
                               ELSE stop - 1) |->
                       [key |-> plots[n].key, value |-> Line2D]]),
            IF plots = <<>> THEN NoError
            ELSE IF read.raised # NoError THEN read.raised
            ELSE IF stop > Len(plots) THEN NoError
            ELSE ReadingRaised(<<plots[stop]>>, read.selves))

\* The first plot for which reading its axes from the States raises, or one
\* more than the number of plots.
FirstUnreadable(plots, selves) ==
    LET failing == { n \in 1..Len(plots) : ReadingRaised(<<plots[n]>>, selves) # NoError }
    IN  IF failing = {} THEN Len(plots) + 1
        ELSE CHOOSE n \in failing : \A m \in failing : n <= m

\* PlottingBase.add_process, lines 255-293
add_process_read(added, plots, state_1, plot_key, process_type, read) ==
    add_process_drawn(added, plots, state_1, plot_key, process_type, read,
                      IF read.raised # NoError THEN 1
                      ELSE FirstUnreadable(plots, read.selves))

\* PlottingBase.add_process, lines 230-293, once both States are plotted
add_process_lines(default_units, added, plots, state_1, state_2, plot_key, process_type) ==
    add_process_read(added, plots, state_1, plot_key, process_type,
                     Sampled(default_units, added.objects[state_1.id],
                             added.objects[state_2.id], process_type))

\* PlottingBase.add_process, lines 220-226: add_state for each State of
\* missing in turn, a State with its label, up to the first that raises.
RECURSIVE add_missing_states(_, _, _)
add_missing_states(added, plots, missing) ==
    IF missing = <<>> \/ added.raised # NoError THEN added
    ELSE add_missing_states(add_state(added.objects, added.states, added.processes,
                                      plots, Head(missing)[1],
                                      Str(repr(Head(missing)[1])), Head(missing)[2]),
                            plots, Tail(missing))

\* PlottingBase.add_process, lines 228-293, once the States that were
\* missing are added, or adding one has raised.
add_process_second(default_units, added, plots, state_1, key_1, state_2, key_2, process_type, label_2) ==
    IF added.raised # NoError THEN added
    ELSE add_process_lines(default_units, added, plots, state_1, state_2,
                           key_1 \o key_2, process_type)

\* PlottingBase.add_process, lines 212-230: the keys of the two States are
\* looked up by identity, and a State that is missing is added under its
\* repr.
add_process_keyed(default_units, objects, states, processes, plots, state_1, state_2, process_type, label_1, label_2) ==
    add_process_second(
        default_units,
        add_missing_states(
            Managed(objects, states, processes, NoError), plots,
            (IF KeyOf(states, state_1) = None THEN <<<<state_1, label_1>>>> ELSE <<>>)
            \o (IF KeyOf(states, state_2) = None THEN <<<<state_2, label_2>>>> ELSE <<>>)),
        plots, state_1,
        IF KeyOf(states, state_1) = None THEN repr(state_1)
        ELSE KeyOf(states, state_1).s,
        state_2,
        IF KeyOf(states, state_2) = None THEN repr(state_2)
        ELSE KeyOf(states, state_2).s,
        process_type, label_2)

\* A variant of add_process that compares the substances after the States
\* that were missing have been added.
add_process_adding_first(default_units, objects, states, processes, plots, state_1, state_2, process_type, label_1, label_2) ==
    LET constant(state) ==
            __getattr__(objects[state.id], <<allowed_processes(process_type.s)>>)
    IN  IF process_type # None /\ process_type.s \notin allowed_processes_keys
        THEN Managed(objects, states, processes,
                     Raise("ValueError", "Not a supported process type", <<>>))
        ELSE IF process_type # None /\ constant(state_1).raised # NoError
        THEN Managed(objects, states, processes, constant(state_1).raised)
        ELSE IF process_type # None /\ constant(state_2).raised # NoError
        THEN Managed(objects, states, processes, constant(state_2).raised)
        ELSE IF process_type # None
                /\ ~isclose(constant(state_1).value, constant(state_2).value)
        THEN Managed(objects, states, processes,
                     Raise("ValueError", "was not held constant", <<>>))
        ELSE IF objects[state_1.id].sub # objects[state_2.id].sub
        THEN Managed(add_process_keyed(default_units, objects, states, processes,
                                       plots, state_1, state_2, None, label_1,
                                       label_2).objects,
                     add_process_keyed(default_units, objects, states, processes,
                                       plots, state_1, state_2, None, label_1,
                                       label_2).states,
                     processes,
                     Raise("ValueError", "Substance of input states do not match", <<>>))
        ELSE add_process_keyed(default_units, objects, states, processes, plots,
                               state_1, state_2, process_type, label_1, label_2)

\* PlottingBase.add_process, lines 194-293, for a process type that is None
\* or supported: constant holds what reading the property the process type
\* keeps constant from state_1 and from state_2 has returned or raised.
add_process_checked(default_units, objects, states, processes, plots, state_1, state_2, process_type, label_1, label_2, constant) ==
    IF process_type # None /\ constant[1].raised # NoError
    THEN Managed(objects, states, processes, constant[1].raised)
    ELSE IF process_type # None /\ constant[2].raised # NoError
    THEN Managed(objects, states, processes, constant[2].raised)
    ELSE IF process_type # None /\ ~isclose(constant[1].value, constant[2].value)
    THEN Managed(objects, states, processes,
                 Raise("ValueError", "was not held constant", <<>>))
    ELSE IF objects[state_1.id].sub # objects[state_2.id].sub
    THEN Managed(objects, states, processes,
                 Raise("ValueError", "Substance of input states do not match", <<>>))
    ELSE add_process_keyed(default_units, objects, states, processes, plots,
                           state_1, state_2, process_type, label_1, label_2)

\* PlottingBase.add_process(state_1, state_2, process_type, label_1, label_2)
add_process(default_units, objects, states, processes, plots, state_1, state_2, process_type, label_1, label_2) ==
    IF process_type # None /\ process_type.s \notin allowed_processes_keys
    THEN Managed(objects, states, processes,
                 Raise("ValueError", "Not a supported process type", <<>>))
    ELSE add_process_checked(
             default_units, objects, states, processes, plots, state_1, state_2,
             process_type, label_1, label_2,
             [i \in 1..(IF process_type = None THEN 0 ELSE 2) |->
                __getattr__(objects[<<state_1, state_2>>[i].id],
                            <<allowed_processes(process_type.s)>>)])

\* VaporDome.plot / IdealGas.plot (x_axis, y_axis): the plots after the call,
\* and the exception
plot(plots, x_axis, y_axis) ==
    IF <<x_axis, y_axis>> \notin DictKeys(plots)
    THEN [plots |-> DictSet(plots, <<x_axis, y_axis>>, <<"fig", "axis">>),
          raised |-> NoError]
    ELSE [plots |-> plots,
          raised |-> Raise("ValueError", "Plot has already been added", <<>>)]

(***************************************************************************)
(* The inputs of the model                                                  *)
(***************************************************************************)

\* The most keyword properties a constructor call is given.
MaxKwargs == 3

\* A quantity of a dimension no property but x has, and one x does not have.
WrongQuantity(letter) ==
    IF letter = "x" THEN Q_(400, "K") ELSE Q_(1, "dimensionless")

\* The quantities offered for a property: values of the backend's table in
\* several units, values on and outside the physical bounds, a negative
\* reading in a unit with an offset, negative energies and entropies, and a
\* quantity of the wrong dimension.
QuantitiesFor(letter) ==
    CASE letter = "T" -> { Q_(400, "K"), Q_(102, "degC"), Q_(-5, "K"),
                           Q_(0, "K"), Q_(-5, "degC"), WrongQuantity(letter) }
      [] letter = "p" -> { Q_(137900000, "Pa"), Q_(2758, "bar"),
                           Q_(0, "Pa"), Q_(-1, "bar") }
      [] letter = "v" -> { Q_(4, "m**3/kg"), Q_(0, "m**3/kg"), Q_(-4, "m**3/kg") }
      [] letter = "u" -> { Q_(3489000, "J/kg"), Q_(-1163, "kJ/kg") }
      [] letter = "h" -> { Q_(2000, "BTU/lb"), Q_(-500, "BTU/lb") }
      [] letter = "s" -> { Q_(12561000, "J/(kg*K)"), Q_(-4187, "kJ/(kg*K)") }
      [] letter = "x" -> { Q_(0, "dimensionless"), Q_(100, "percent"),
                           Q_(2, "dimensionless"), Q_(-1, "dimensionless"),
                           WrongQuantity(letter) }
      [] OTHER -> {}

\* The tuples offered for a pair of the registry: every combination of the
\* quantities of its two letters.
ValueInputs(key) == QuantitiesFor(key[1]) \X QuantitiesFor(key[2])

\* The tuple assigned to a name the registry rejects, which is rejected
\* whatever the value.
AnyValue == <<Q_(400, "K"), Q_(137900000, "Pa")>>

\* The attribute names assigned to one object over its life: allowed and
\* unsupported pairs of the registry in both orders, names outside it, and
\* the name of every single property, the read-only ones included.
KeyInputs ==
    { <<"T", "p">>, <<"p", "T">>, <<"T", "x">>, <<"v", "T">>, <<"p", "u">>,
      <<"T", "u">>, <<"x", "h">>,
      <<"T", "P">>, <<"h", "u">>, <<"u", "x">> }
    \cup _all_props \cup _read_only_props

\* The tuples assigned to those names: a state of the gas, one on the
\* saturation line, the saturation temperature and pressure together, a pair
\* the backend has no solution for, a negative temperature, a quality above
\* one, a zero volume and a quantity of the wrong dimension.
PairValueInputs(key) ==
    CASE key = <<"T", "p">> ->
            { <<Q_(400, "K"), Q_(137900000, "Pa")>>,
              <<Q_(102, "degC"), Q_(2758, "bar")>>,
              <<Q_(400, "K"), Q_(2758, "bar")>>,
              <<Q_(-5, "K"), Q_(137900000, "Pa")>>,
              <<WrongQuantity("T"), Q_(137900000, "Pa")>> }
      [] key = <<"p", "T">> -> { <<Q_(137900000, "Pa"), Q_(400, "K")>> }
      [] key = <<"T", "x">> -> { <<Q_(102, "degC"), Q_(0, "dimensionless")>>,
                                 <<Q_(102, "degC"), Q_(2, "dimensionless")>> }
      [] key = <<"v", "T">> -> { <<Q_(4, "m**3/kg"), Q_(400, "K")>>,
                                 <<Q_(0, "m**3/kg"), Q_(400, "K")>> }
      [] key = <<"p", "u">> -> { <<Q_(2758, "bar"), Q_(1163000, "J/kg")>> }
      [] OTHER -> { AnyValue }

SubstanceInputs ==
    { <<"w", "a", "t", "e", "r">>, <<"s", "t", "e", "a", "m">> }

\* A label is None, an object str() converts, or one whose __str__ raises.
LabelInputs == { None, [tag |-> "int", n |-> 1], [tag |-> "NoStr"] }

UnitsInputs == { None, Str("SI"), Str("EE"), Str("bad") }

\* The units a constructor call accepts.
AcceptedUnitsInputs == { None, Str("SI"), Str("EE") }

\* The keyword names of the longest constructor calls, in the order given.
KwNames == <<<<"T">>, <<"p">>, <<"u">>, <<"h">>, <<"s">>>>

\* The keyword names a constructor call is given, in the order given: none,
\* one, two, and up to MaxKwargs; pairs the registry allows, in both orders,
\* one it lists as unsupported, one outside it, names that are no property,
\* and the read-only properties alone and beside a property.
KwNameInputs ==
    { SubSeq(KwNames, 1, n) : n \in 0..MaxKwargs }
    \cup { <<<<"p">>, <<"T">>>>, <<<<"T">>, <<"u">>>>, <<<<"h">>, <<"u">>>>,
           <<<<"T">>, <<"P">>>>, <<<<"P">>>> }
    \cup { <<<<"c", "p">>>>, <<<<"T">>, <<"c", "v">>>>,
           <<<<"p", "h", "a", "s", "e">>, <<"T">>>> }

\* The keyword arguments of a constructor call.  __init__ reads the values
\* only when the names make an allowed pair.
KwargsInputs ==
    UNION { { [names |-> ns, values |-> vs] :
                vs \in IF Join(ns) \in _allowed_pairs
                       THEN PairValueInputs(Join(ns))
                       ELSE { [i \in 1..Len(ns) |-> Q_(400, "K")] } } :
            ns \in KwNameInputs }

NoKwargs == [names |-> <<>>, values |-> <<>>]

\* The constructor calls: every keyword argument with the first substance, no
\* label and the default units; every substance, label and units with no
\* keyword; and each units with one keyword and with a pair.
ConstructInputs ==
    { <<<<"w", "a", "t", "e", "r">>, None, None, k>> : k \in KwargsInputs }
    \cup { <<s, l, u, NoKwargs>> :
             s \in SubstanceInputs, l \in LabelInputs, u \in UnitsInputs }
    \cup { <<<<"w", "a", "t", "e", "r">>, None, u, k>> :
             u \in UnitsInputs,
             k \in { [names |-> <<<<"T">>>>, values |-> <<Q_(400, "K")>>],
                     [names |-> <<<<"T">>, <<"p">>>>,
                      values |-> <<Q_(400, "K"), Q_(137900000, "Pa")>>] } }

\* The values assigned to the attribute sub.
SubInputs == { Str(<<"s", "t", "e", "a", "m">>) }

(***************************************************************************)
(* The state machine: one State object, the module's default_units, and a   *)
(* plot manager with the State objects handed to it                         *)
(***************************************************************************)

VARIABLES
    state,          \* the State object: its attributes
    alive,          \* whether __init__ returned, so that the caller holds it
    default_units,  \* the module global
    op,             \* the last call: its name and arguments
    raised,         \* the exception the last call raised, or NoError
    calls,          \* the backend updates the last call made, in order
    returned,       \* the value the last call returned, None if it has none
    objects,        \* the State objects handed to the plot manager, by number
    states,         \* the plot manager: self.states
    plots,          \* the plot manager: self.plots
    processes       \* the plot manager: self.processes

vars == <<state, alive, default_units, op, raised, calls, returned,
          objects, states, plots, processes>>

\* The variables of the plot manager, and their values while there is none.
manager == <<objects, states, plots, processes>>

NoManager == objects = <<>> /\ states = <<>> /\ plots = <<>> /\ processes = <<>>

Call(name, args) == [name |-> name, args |-> args]

Init ==
    /\ state = NewObject
    /\ alive = FALSE
    /\ default_units = None
    /\ op = Call("import", <<>>)
    /\ raised = NoError
    /\ calls = <<>>
    /\ returned = None
    /\ NoManager

\* The outcome of a constructor call or of an assignment, which return no
\* value, becomes the state.
Becomes(r) ==
    /\ state' = r.self
    /\ raised' = r.raised
    /\ calls' = r.calls
    /\ returned' = None
    /\ UNCHANGED manager

\* State(substance, label=label, units=units, **kwargs): a new object, which
\* the caller holds if __init__ returns.
Construct ==
    \E args \in ConstructInputs :
        /\ Becomes(__init__(default_units, args[1], args[2], args[3], args[4]))
        /\ alive' = (raised' = NoError)
        /\ op' = Call("__init__", args)
        /\ UNCHANGED default_units

\* state.<key> = value, for a pair name or a name outside the registry
AssignPair ==
    /\ alive
    /\ \E key \in KeyInputs :
         \E value \in PairValueInputs(key) :
            /\ Becomes(__setattr__(state, key, value))
            /\ op' = Call("__setattr__", <<key, value>>)
            /\ UNCHANGED <<alive, default_units>>

\* state.units = value
AssignUnits ==
    /\ alive
    /\ \E value \in UnitsInputs :
         /\ Becomes(__setattr__(state, <<"u", "n", "i", "t", "s">>, value))
         /\ op' = Call("__setattr__", <<<<"u", "n", "i", "t", "s">>, value>>)
         /\ UNCHANGED <<alive, default_units>>

\* state.label = value
AssignLabel ==
    /\ alive
    /\ \E value \in LabelInputs :
         /\ Becomes(__setattr__(state, <<"l", "a", "b", "e", "l">>, value))
         /\ op' = Call("__setattr__", <<<<"l", "a", "b", "e", "l">>, value>>)
         /\ UNCHANGED <<alive, default_units>>

\* state.sub = value
AssignSub ==
    /\ alive
    /\ \E value \in SubInputs :
         /\ Becomes(__setattr__(state, <<"s", "u", "b">>, value))
         /\ op' = Call("__setattr__", <<<<"s", "u", "b">>, value>>)
         /\ UNCHANGED <<alive, default_units>>

Next ==
    \/ Construct
    \/ AssignPair
    \/ AssignUnits
    \/ AssignLabel
    \/ AssignSub

Spec == Init /\ [][Next]_vars

(***************************************************************************)
(* One assignment of every name to a new object                             *)
(***************************************************************************)

\* The letters of attribute names: those of the properties, and two that
\* are none.
LetterInputs == { "T", "p", "v", "u", "h", "s", "x", "P", "c" }

\* Every name of one or two of those letters.
NameInputs ==
    { <<a>> : a \in LetterInputs } \cup { <<a, b>> : a, b \in LetterInputs }

\* The assignments drawn: each pair of the registry with every combination of
\* the quantities of its letters, each other name with one tuple.
DrawInputs ==
    UNION { { <<key, value>> :
                value \in IF key \in _allowed_pairs
                          THEN ValueInputs(key)
                          ELSE { AnyValue } } :
            key \in NameInputs }

\* A new object of each units, and the assignment about to be made to it.
InitPairs ==
    /\ state \in { __init__(None, <<"w", "a", "t", "e", "r">>, None, u, NoKwargs).self :
                     u \in { None, Str("SI"), Str("EE") } }
    /\ alive = TRUE
    /\ default_units = None
    /\ op \in { Call("pending", args) : args \in DrawInputs }
    /\ raised = NoError
    /\ calls = <<>>
    /\ returned = None
    /\ NoManager

\* state.<key> = value, for the assignment drawn
AssignDrawn ==
    /\ op.name = "pending"
    /\ Becomes(__setattr__(state, op.args[1], op.args[2]))
    /\ op' = Call("__setattr__", op.args)
    /\ UNCHANGED <<alive, default_units>>

SpecPairs == InitPairs /\ [][AssignDrawn]_vars

(***************************************************************************)
(* The default units: the module global set between constructor calls       *)
(***************************************************************************)

\* The constructor calls made under a default: each units, with no keyword
\* and with a pair.
DefaultConstructInputs ==
    { <<<<"w", "a", "t", "e", "r">>, None, u, k>> :
        u \in UnitsInputs,
        k \in { NoKwargs,
                [names |-> <<<<"T">>, <<"p">>>>,
                 values |-> <<Q_(400, "K"), Q_(137900000, "Pa")>>] } }

\* The pair assignments made to an object under a default.
DefaultKeyInputs == { <<"T", "p">>, <<"T", "x">>, <<"v", "T">> }

\* set_default_units(value)
SetDefaultUnits ==
    \E value \in UnitsInputs :
        /\ default_units' = set_default_units(default_units, value).default_units
        /\ raised' = set_default_units(default_units, value).raised
        /\ calls' = <<>>
        /\ returned' = None
        /\ op' = Call("set_default_units", <<value>>)
        /\ UNCHANGED <<state, alive, manager>>

\* State("water", units=units, **kwargs) under the default of the moment
ConstructUnderDefault ==
    \E args \in DefaultConstructInputs :
        /\ Becomes(__init__(default_units, args[1], args[2], args[3], args[4]))
        /\ alive' = (raised' = NoError)
        /\ op' = Call("__init__", args)
        /\ UNCHANGED default_units

\* state.<key> = value, for a pair name
AssignPairUnderDefault ==
    /\ alive
    /\ \E key \in DefaultKeyInputs :
         \E value \in PairValueInputs(key) :
            /\ Becomes(__setattr__(state, key, value))
            /\ op' = Call("__setattr__", <<key, value>>)
            /\ UNCHANGED <<alive, default_units>>

NextDefaults ==
    \/ SetDefaultUnits
    \/ ConstructUnderDefault
    \/ AssignPairUnderDefault
    \/ AssignUnits

SpecDefaults == Init /\ [][NextDefaults]_vars

(***************************************************************************)
(* Comparisons: two objects and one comparison operator                     *)
(***************************************************************************)

\* The keyword arguments the compared States are built with: none, the gas
\* from T and p and from v and T, the saturated liquid, and the two states
\* one grid step of temperature apart.
CompareKwargs ==
    { NoKwargs,
      [names |-> <<<<"T">>, <<"p">>>>,
       values |-> <<Q_(400, "K"), Q_(137900000, "Pa")>>],
      [names |-> <<<<"v">>, <<"T">>>>,
       values |-> <<Q_(4, "m**3/kg"), Q_(400, "K")>>],
      [names |-> <<<<"T">>, <<"x">>>>,
       values |-> <<Q_(102, "degC"), Q_(0, "dimensionless")>>],
      [names |-> <<<<"T">>, <<"v">>>>,
       values |-> <<Q_(500100, "K"), Q_(4, "m**3/kg")>>],
      [names |-> <<<<"T">>, <<"v">>>>,
       values |-> <<Q_(500105, "K"), Q_(4, "m**3/kg")>>] }

\* The constructor calls that build them: water under each units, water with
\* a label, and air at the temperature and volume of the gas.
CompareConstructInputs ==
    { <<<<"w", "a", "t", "e", "r">>, None, u, k>> :
        u \in AcceptedUnitsInputs, k \in CompareKwargs }
    \cup { <<<<"w", "a", "t", "e", "r">>, Str("1"), None,
             [names |-> <<<<"T">>, <<"p">>>>,
              values |-> <<Q_(400, "K"), Q_(137900000, "Pa")>>]>> }
    \cup { <<<<"a", "i", "r">>, None, u,
             [names |-> <<<<"T">>, <<"p">>>>,
              values |-> <<Q_(400, "K"), Q_(275800000, "Pa")>>]>> :
             u \in AcceptedUnitsInputs }

\* The States compared.
StateOperands ==
    { __init__(None, args[1], args[2], args[3], args[4]).self :
        args \in CompareConstructInputs }

\* The values a State is compared with that are no State.
OtherOperands == { [tag |-> "int", n |-> 3], None, Str("water") }

ComparisonMethods == { "__eq__", "__le__", "__lt__", "__gt__", "__ge__" }

\* Two operands, the left one a State, before any comparison.
InitCompare ==
    /\ state \in StateOperands
    /\ alive = TRUE
    /\ default_units = None
    /\ op \in { Call("operands", <<other>>) :
                 other \in StateOperands \cup OtherOperands }
    /\ raised = NoError
    /\ calls = <<>>
    /\ returned = None
    /\ NoManager

\* state <op> other
Compare ==
    \E method \in ComparisonMethods :
        /\ returned' = RichCompare(method, state, op.args[1]).value
        /\ raised' = RichCompare(method, state, op.args[1]).raised
        /\ calls' = <<>>
        /\ op' = Call(method, op.args)
        /\ UNCHANGED <<state, alive, default_units, manager>>

SpecCompare == InitCompare /\ [][Compare]_vars

(***************************************************************************)
(* The plot manager: States added, removed and joined by processes          *)
(***************************************************************************)

\* A State of a substance resolved from two keywords, under no units.
Resolved(substance, names, values) ==
    __init__(None, substance, None, None, [names |-> names, values |-> values]).self

SaturatedLiquid ==
    Resolved(<<"w", "a", "t", "e", "r">>, <<<<"T">>, <<"x">>>>,
             <<Q_(102, "degC"), Q_(0, "dimensionless")>>)

SaturatedVapor ==
    Resolved(<<"w", "a", "t", "e", "r">>, <<<<"T">>, <<"x">>>>,
             <<Q_(102, "degC"), Q_(100, "percent")>>)

\* The two State objects handed to a manager: two of the saturated liquid,
\* which compare equal and are two objects; the saturated liquid and the
\* saturated vapor of one temperature and pressure; and water and air.
ObjectsInputs ==
    { [i \in 1..2 |-> Resolved(made[i][1], made[i][2], made[i][3])] :
        made \in
          { << <<<<"w", "a", "t", "e", "r">>, <<<<"T">>, <<"x">>>>,
                 <<Q_(102, "degC"), Q_(0, "dimensionless")>>>>,
               <<<<"w", "a", "t", "e", "r">>, <<<<"T">>, <<"x">>>>,
                 <<Q_(102, "degC"), Q_(0, "dimensionless")>>>> >>,
            << <<<<"w", "a", "t", "e", "r">>, <<<<"T">>, <<"x">>>>,
                 <<Q_(102, "degC"), Q_(0, "dimensionless")>>>>,
               <<<<"w", "a", "t", "e", "r">>, <<<<"T">>, <<"x">>>>,
                 <<Q_(102, "degC"), Q_(100, "percent")>>>> >>,
            << <<<<"w", "a", "t", "e", "r">>, <<<<"T">>, <<"p">>>>,
                 <<Q_(400, "K"), Q_(137900000, "Pa")>>>>,
               <<<<"a", "i", "r">>, <<<<"T">>, <<"p">>>>,
                 <<Q_(400, "K"), Q_(275800000, "Pa")>>>> >> } }

\* The calls of add_state: each State under its repr, and the second under
\* a key of the caller's and with a label.
AddStateInputs ==
    { <<Ref(1), None, None>>, <<Ref(2), None, None>>,
      <<Ref(2), Str(<<"a">>), Str("1")>> }

\* The process type and the label of a call of add_process: no process
\* type, two of allowed_processes, and one outside it; the label goes with
\* the isochoric process.
AddProcessInputs ==
    { <<None, None>>, <<Str("isothermal"), None>>, <<Str("isochoric"), Str("1")>>,
      <<Str("adiabatic"), None>> }

\* The calls of remove_state: no argument, a State, a key in use and one
\* never used.
RemoveStateInputs ==
    { <<None, None>>, <<Ref(1), None>>, <<Ref(2), None>>,
      <<None, Str(<<"a">>)>>, <<None, Str(<<"z">>)>> }

\* VaporDome("water", ("T", "v")) and two States, not yet added.
InitPlot ==
    /\ state = NewObject
    /\ alive = FALSE
    /\ default_units = None
    /\ op = Call("VaporDome", <<>>)
    /\ raised = NoError
    /\ calls = <<>>
    /\ returned = None
    /\ objects \in ObjectsInputs
    /\ states = <<>>
    /\ plots = plot(<<>>, "T", "v").plots
    /\ processes = <<>>

\* The outcome of a method of the manager becomes the state.
Manages(r) ==
    /\ objects' = r.objects
    /\ states' = r.states
    /\ processes' = r.processes
    /\ raised' = r.raised
    /\ calls' = <<>>
    /\ returned' = None
    /\ UNCHANGED <<state, alive, default_units, plots>>

\* manager.add_state(state, key, label)
AddState ==
    \E args \in AddStateInputs :
        /\ Manages(add_state(objects, states, processes, plots,
                             args[1], args[2], args[3]))
        /\ op' = Call("add_state", args)

\* manager.remove_state(state, key)
RemoveState ==
    \E args \in RemoveStateInputs :
        /\ Manages(remove_state(objects, states, processes, args[1], args[2]))
        /\ op' = Call("remove_state", args)

\* manager.add_process(state_1, state_2, process_type, label_1, label_2)
AddProcess ==
    \E args \in AddProcessInputs :
        /\ Manages(add_process(default_units, objects, states, processes, plots,
                               Ref(1), Ref(2), args[1], args[2], args[2]))
        /\ op' = Call("add_process", <<Ref(1), Ref(2), args[1], args[2], args[2]>>)

\* manager.remove_process(state_1, state_2, remove_states)
RemoveProcess ==
    \E remove_states \in BOOLEAN :
        /\ Manages(remove_process(objects, states, processes, Ref(1), Ref(2),
                                  remove_states))
        /\ op' = Call("remove_process", <<Ref(1), Ref(2), remove_states>>)

NextPlot ==
    \/ AddState
    \/ RemoveState
    \/ AddProcess
    \/ RemoveProcess

SpecPlot == InitPlot /\ [][NextPlot]_vars

(***************************************************************************)
(* Properties                                                               *)
(***************************************************************************)

\* None of the ten slots is set.
Unresolved(self) == \A prop \in PrivateProps : self._props[prop] = Unset

\* Each of the ten slots is set.
FullyResolved(self) == \A prop \in PrivateProps : self._props[prop] # Unset

\* The ten slots as read from a backend handle under a units tag.
SlotsOf(handle, units) ==
    [prop \in PrivateProps |-> PropertyValue(handle, units, prop)]

\* The attributes __setattr__ hands to object.__setattr__.
PlainAttributes ==
    { <<"s", "u", "b">>, <<"l", "a", "b", "e", "l">>, <<"u", "n", "i", "t", "s">> }

\* The call o assigns to a pair name, or to a name __setattr__ takes for one.
IsPairAssignment(o) == o.name = "__setattr__" /\ o.args[1] \notin PlainAttributes

\* The messages of the rejections that precede the backend.
RejectionMessages ==
    { "Unknown attribute", "isn't supported yet", "dimensions must be",
      "must be positive in absolute units", "quality must be between 0 and 1" }

\* C1, one step: a call that made a successful update leaves every slot as
\* read from the handle that update resolved, under the units of the object;
\* any other call leaves the object with no slot set or with the ten slots it
\* had.
C1Step ==
    IF raised' = NoError /\ calls' # <<>>
    THEN /\ FullyResolved(state')
         /\ update(AbstractState(state'._abstract_state.fluid),
                   calls'[Len(calls')].inputs,
                   calls'[Len(calls')].values[1],
                   calls'[Len(calls')].values[2]).error = "ok"
         /\ state'._props =
              SlotsOf(update(AbstractState(state'._abstract_state.fluid),
                             calls'[Len(calls')].inputs,
                             calls'[Len(calls')].values[1],
                             calls'[Len(calls')].values[2]).handle,
                      state'._units)
    ELSE \/ Unresolved(state')
         \/ FullyResolved(state') /\ state'._props = state._props

\* C1: over construction, pair assignments (successful or failed) and changes
\* of units, label and sub, an object has either none of its ten slots set or
\* all ten, and all ten come from the most recent successful backend update:
\* no slot keeps a value of an earlier resolution.
C1_AllOrNothing == Unresolved(state) /\ [][C1Step]_vars

\* C1 witness: a resolved object whose quality is None, after a pair
\* assignment that the backend failed.
C1_Witness ==
    /\ alive
    /\ IsPairAssignment(op)
    /\ raised.msg = "not independent"
    /\ FullyResolved(state)
    /\ state._props[<<"x">>] = None

\* C2: a pair assignment that raises leaves the ten slots, the units tag, the
\* label and the substance of the object as they were.
C2_FailedAssignmentKeepsState ==
    [][IsPairAssignment(op') /\ raised' # NoError
       => /\ state'._props = state._props
          /\ state'._units = state._units
          /\ state'._label = state._label
          /\ state'.sub = state.sub]_vars

\* C2 witness: a resolved object after a pair assignment the backend failed,
\* in units and with a label other than the defaults.
C2_Witness ==
    /\ alive
    /\ IsPairAssignment(op)
    /\ raised.type = "ValueError"
    /\ calls # <<>>
    /\ FullyResolved(state)
    /\ state._units = Str("EE")
    /\ state._label = Str("1")

\* C3: a successful pair assignment, by constructor keywords or by attribute
\* assignment, calls update once; one rejected as unknown, unsupported,
\* dimension-mismatched or out of bounds calls it zero times; a failed update
\* is the only one the call makes.
C3_UpdateCalledOnce ==
    IsPairAssignment(op) \/ op.name = "__init__"
    => /\ Len(calls) <= 1
       /\ raised = NoError /\ IsPairAssignment(op) => Len(calls) = 1
       /\ raised = NoError /\ op.name = "__init__"
          => Len(calls) = (IF Len(op.args[4].names) = 2 THEN 1 ELSE 0)
       /\ raised.msg \in RejectionMessages => calls = <<>>

\* C3 witness: a constructor call with two keywords that the backend failed.
C3_Witness ==
    /\ op.name = "__init__"
    /\ Len(op.args[4].names) = 2
    /\ raised.msg = "not independent"
    /\ Len(calls) = 1

\* The input selectors of the backend on a mass basis.
MassBasisSelectors ==
    { n \in CoolPropConstants :
        Contains(n, <<"I", "N", "P", "U", "T", "S">>) /\ ~Contains(n, molar) }

\* The position of a letter in a pair name.
LetterAt(key, letter) == CHOOSE i \in 1..2 : key[i] = letter

\* C4, one step, for the assignment key = value of an allowed pair to the
\* object before the step: the reversed name with the reversed tuple issues
\* the same update calls; a call names a mass-basis input selector of the
\* backend whose two names are in sorted order; x goes into the quality input
\* and v into the density input as 1/v.
C4Step ==
    IsPairAssignment(op') /\ op'.args[1] \in _allowed_pairs
    => /\ calls' = __setattr__(state, Reversed(op'.args[1]),
                               Reversed(op'.args[2])).calls
       /\ \A i \in 1..Len(calls') :
            /\ calls'[i].inputs \in MassBasisSelectors
            /\ StrLess(InputPairOf(calls'[i].inputs)[1],
                       InputPairOf(calls'[i].inputs)[2])
            /\ "x" \in { op'.args[1][1], op'.args[1][2] }
               => \E n \in 1..2 :
                     /\ InputPairOf(calls'[i].inputs)[n] = <<"Q">>
                     /\ calls'[i].values[n] =
                          BaseMagnitude(op'.args[2][LetterAt(op'.args[1], "x")])
            /\ "v" \in { op'.args[1][1], op'.args[1][2] }
               => \E n \in 1..2 :
                     /\ InputPairOf(calls'[i].inputs)[n] = <<"D">> \o mass
                     /\ calls'[i].values[n] =
                          Reciprocal(BaseMagnitude(
                              op'.args[2][LetterAt(op'.args[1], "v")]))

\* C4: for every allowed pair AB and all values, AB = (a, b) and BA = (b, a)
\* issue the same backend update call: the same input selector, one of the
\* backend's mass-basis selectors, and the same two values in the same order,
\* with x as the quality input, v as the density 1/v, and the inputs in the
\* order of their backend names.
C4_SameUpdateCall == [][C4Step]_vars

\* C4 witness: v and T, assigned in that order, reached the backend as
\* density and temperature.
C4_Witness ==
    /\ IsPairAssignment(op)
    /\ op.args[1] = <<"v", "T">>
    /\ raised = NoError
    /\ Len(calls) = 1
    /\ calls[1].inputs = <<"D">> \o mass \o <<"T">> \o INPUTS
    /\ calls[1].values = <<1, 400>>

\* C5: after a successful assignment to an allowed pair AB, reading AB returns
\* the slots of A and B in that order and reading BA returns the slots of B
\* and A: a pair read follows the letters of the name read.
C5_PairReadFollowsName ==
    IsPairAssignment(op) /\ op.args[1] \in _allowed_pairs /\ raised = NoError
    => /\ __getattr__(state, op.args[1]).raised = NoError
       /\ __getattr__(state, op.args[1]).value.items =
            <<state._props[<<op.args[1][1]>>], state._props[<<op.args[1][2]>>]>>
       /\ __getattr__(state, Reversed(op.args[1])).raised = NoError
       /\ __getattr__(state, Reversed(op.args[1])).value.items =
            <<state._props[<<op.args[1][2]>>], state._props[<<op.args[1][1]>>]>>

\* C5 witness: x and T were assigned in that order on the saturation line,
\* and the two slots differ.
C5_Witness ==
    /\ IsPairAssignment(op)
    /\ op.args[1] = <<"x", "T">>
    /\ raised = NoError
    /\ state._props[<<"x">>] # state._props[<<"T">>]
    /\ state._props[<<"x">>] # None

\* C6: the allowed and the unsupported pairs are disjoint, each set holds the
\* reverse of each of its members, every member is two distinct letters of
\* Tpvuhsx, and an assignment to a name outside both sets raises the
\* unknown-attribute error.
C6_RegistryWellFormed ==
    /\ _allowed_pairs \cap _unsupported_pairs = {}
    /\ \A k \in _allowed_pairs : Reversed(k) \in _allowed_pairs
    /\ \A k \in _unsupported_pairs : Reversed(k) \in _unsupported_pairs
    /\ \A k \in _allowed_pairs \cup _unsupported_pairs :
         /\ Len(k) = 2
         /\ k[1] # k[2]
         /\ <<k[1]>> \in _all_props
         /\ <<k[2]>> \in _all_props
    /\ IsPairAssignment(op)
       => (op.args[1] \notin _allowed_pairs \cup _unsupported_pairs
           <=> raised.type = "AttributeError" /\ raised.msg = "Unknown attribute")

\* C6 witness: two property letters the backend has no selector for were
\* assigned to and took the unknown-attribute error.
C6_Witness ==
    /\ IsPairAssignment(op)
    /\ op.args[1] = <<"h", "u">>
    /\ raised.msg = "Unknown attribute"

\* The substance, label and units of a constructor call are ones __init__
\* accepts.
AcceptedBase(args) ==
    /\ Upper(args[1]) \in _allowed_subs
    /\ args[2] = None \/ PyStr(args[2]) # Unset
    /\ args[3] \in { None, Str("SI"), Str("EE") }

\* The name a call assigns a tuple to: the attribute name, or the keyword
\* names of a constructor call in the order given.
PairNameOf(o) ==
    IF o.name = "__init__" THEN Join(o.args[4].names) ELSE o.args[1]

\* The call o supplies a pair: two keywords to an otherwise accepted
\* constructor call, or an assignment to a name of two letters.
SuppliesPair(o) ==
    \/ /\ o.name = "__init__"
       /\ Len(o.args[4].names) = 2
       /\ AcceptedBase(o.args)
    \/ IsPairAssignment(o) /\ Len(o.args[1]) = 2

\* C7: on both entry points, a pair the registry lists as unsupported raises
\* the StateError "isn't supported yet", and a pair outside the registry
\* raises the error of an unknown attribute or property: AttributeError, or
\* the ValueError of a keyword that is no property.
C7_ErrorKindFollowsRegistry ==
    SuppliesPair(op)
    => /\ PairNameOf(op) \in _unsupported_pairs
          => raised.type = "StateError" /\ raised.msg = "isn't supported yet"
       /\ PairNameOf(op) \notin _all_pairs
          => \/ raised.type = "AttributeError"
             \/ raised.type = "ValueError" /\ raised.msg = "argument is not allowed"

\* C8: a constructor call with an accepted substance, label and units and no
\* keyword returns an object with no slot set; every read of a property, a
\* pair, phase, cp or cv of an object with no slot set raises AttributeError;
\* and such a call with one keyword, or with three or more, raises ValueError.
C8_KeywordArity ==
    /\ op.name = "__init__" /\ AcceptedBase(op.args)
       => /\ Len(op.args[4].names) = 0
             => raised = NoError /\ alive /\ Unresolved(state)
          /\ Len(op.args[4].names) = 1 \/ Len(op.args[4].names) >= 3
             => raised.type = "ValueError" /\ ~alive
    /\ alive /\ Unresolved(state)
       => \A key \in _all_props \cup _all_pairs \cup _read_only_props :
             __getattr__(state, key).raised.type = "AttributeError"

\* C8 witness: an object built with no keyword, still unresolved after a pair
\* assignment that was rejected.
C8_Witness ==
    /\ alive
    /\ Unresolved(state)
    /\ IsPairAssignment(op)
    /\ raised.msg = "must be positive in absolute units"

\* C9: when __init__ raises the arity error, no backend handle has been
\* created and update has not been called.
C9_ArityBeforeBackend ==
    op.name = "__init__" /\ raised.msg = "Incorrect number of properties"
    => state._abstract_state = Unset /\ calls = <<>>

\* C10, one step: a constructor call that returns leaves sub the uppercase of
\* the name given, a member of _allowed_subs; one given another name, with an
\* accepted label and units, raises ValueError; and no other call changes
\* sub.
C10Step ==
    /\ op'.name = "__init__" /\ alive'
       => /\ state'.sub = Str(Upper(op'.args[1]))
          /\ Upper(op'.args[1]) \in _allowed_subs
    /\ /\ op'.name = "__init__"
       /\ Upper(op'.args[1]) \notin _allowed_subs
       /\ op'.args[2] = None \/ PyStr(op'.args[2]) # Unset
       /\ op'.args[3] \in { None, Str("SI"), Str("EE") }
       => raised'.type = "ValueError"
    /\ op'.name # "__init__" => state'.sub = state.sub

\* C10: the substance is the uppercase of the name given at construction, a
\* member of the allow-list (another name fails construction with
\* ValueError), and no operation on the object changes it afterwards, an
\* assignment to the attribute sub included.
C10_SubstanceFixed == [][C10Step]_vars

\* The keyword names of a constructor call include cp, cv or phase.
NamesReadOnly(o) ==
    \E i \in 1..Len(o.args[4].names) : o.args[4].names[i] \in _read_only_props

\* C11, one step: a constructor call given cp, cv or phase as a keyword
\* raises, returns no object and calls no update, and with an accepted
\* substance, label and units the error is the ValueError of a keyword that
\* is not allowed; an assignment to cp, cv, phase or to a single property
\* letter raises AttributeError, calls no update and leaves the object as it
\* was.
C11Step ==
    /\ op'.name = "__init__" /\ NamesReadOnly(op')
       => /\ raised' # NoError
          /\ ~alive'
          /\ calls' = <<>>
          /\ Unresolved(state')
          /\ AcceptedBase(op'.args)
             => /\ raised'.type = "ValueError"
                /\ raised'.msg = "argument is not allowed"
    /\ IsPairAssignment(op') /\ op'.args[1] \in _all_props \cup _read_only_props
       => /\ raised'.type = "AttributeError"
          /\ calls' = <<>>
          /\ state' = state

\* C11: cp, cv and phase are never accepted as inputs and no single property
\* is assigned alone: as a constructor keyword, or as the attribute assigned
\* to, each fails with an error and leaves the State unchanged.
C11_ReadOnlyAndSingleRejected == [][C11Step]_vars

\* C11 witness: a resolved object after an assignment to phase was rejected.
C11_Witness ==
    /\ alive
    /\ FullyResolved(state)
    /\ IsPairAssignment(op)
    /\ op.args[1] = <<"p", "h", "a", "s", "e">>
    /\ raised.type = "AttributeError"

\* The call o assigns to the attribute units.
IsUnitsAssignment(o) ==
    o.name = "__setattr__" /\ o.args[1] = <<"u", "n", "i", "t", "s">>

\* What a slot says of the physical state: the magnitude of a quantity in
\* base units, and any other value as it is.
Physical(value) ==
    IF value.tag = "Quantity" THEN [base |-> BaseMagnitude(value)] ELSE value

\* C12, one step: an accepted change of the units tag of a resolved object
\* calls no update and leaves every slot describing the physical state it
\* described.
C12Step ==
    IsUnitsAssignment(op') /\ raised' = NoError /\ FullyResolved(state)
    => /\ calls' = <<>>
       /\ \A prop \in PrivateProps :
             Physical(state'._props[prop]) = Physical(state._props[prop])

\* C12: changing the units tag of an already-resolved State re-expresses
\* every property by unit conversion only: the backend's update is not
\* called again, and the physical state the slots describe is the one they
\* described before.
C12_UnitsChangeConvertsOnly == [][C12Step]_vars

\* The unit a slot is expressed in: that of a quantity, and None for a value
\* that has no unit.
UnitOf(value) == IF value.tag = "Quantity" THEN value.units ELSE None

\* C13, one step: setting the units tag of a resolved object to None leaves
\* each slot in the unit it was in.
C13Step ==
    /\ IsUnitsAssignment(op')
    /\ op'.args[2] = None
    /\ raised' = NoError
    /\ FullyResolved(state)
    => \A prop \in PrivateProps :
          UnitOf(state'._props[prop]) = UnitOf(state._props[prop])

\* C13: setting the units tag of a resolved State to None leaves the unit of
\* every property quantity as it was immediately before the change: a State
\* resolved under "EE" still reports T in degF and p in psi.
C13_UnitsNoneKeepsUnits == [][C13Step]_vars

\* The properties that carry a unit under a profile.
ProfileProps ==
    { <<"T">>, <<"p">>, <<"v">>, <<"u">>, <<"h">>, <<"s">>, <<"c", "p">>, <<"c", "v">> }

\* The name pint gives the unit a profile assigns to a property.
ProfileUnitName(tag, prop) ==
    IF tag = Str("SI")
    THEN CASE prop = <<"T">> -> "degree_Celsius"
           [] prop = <<"p">> -> "bar"
           [] prop = <<"v">> -> "meter ** 3 / kilogram"
           [] prop \in { <<"u">>, <<"h">> } -> "kilojoule / kilogram"
           [] OTHER -> "kilojoule / kelvin / kilogram"
    ELSE CASE prop = <<"T">> -> "degree_Fahrenheit"
           [] prop = <<"p">> -> "pound_force_per_square_inch"
           [] prop = <<"v">> -> "foot ** 3 / pound"
           [] prop \in { <<"u">>, <<"h">> } -> "british_thermal_unit / pound"
           [] OTHER -> "british_thermal_unit / degree_Rankine / pound"

TagUnitName(tag, prop) ==
    IF tag = None THEN UnitRegistry(_SI_units(prop)).name
    ELSE ProfileUnitName(tag, prop)

\* C15, one step: set_default_units changes the default to the value given
\* and nothing of the object, and only it changes the default; a constructor
\* call that returns leaves the tag given, or the default of the moment when
\* none was given; and a later pair assignment resolves the slots in the
\* units of the object's own tag.
C15Step ==
    /\ op'.name = "set_default_units"
       => /\ state' = state
          /\ alive' = alive
          /\ raised' = NoError => default_units' = op'.args[1]
    /\ op'.name # "set_default_units" => default_units' = default_units
    /\ op'.name = "__init__" /\ alive'
       => state'._units =
            (IF op'.args[3] = None THEN default_units ELSE op'.args[3])
    /\ IsPairAssignment(op')
       => /\ state'._units = state._units
          /\ raised' = NoError
             => \A prop \in ProfileProps :
                   UnitOf(state'._props[prop]).name =
                     TagUnitName(state._units, prop)

\* C15: set_default_units(P) affects only States constructed afterwards
\* without an explicit profile: such a State gets tag P, a State constructed
\* with units "SI" or "EE" gets that tag whatever the default is, and a State
\* constructed before a change of the default keeps its tag and the units of
\* its slots.
C15_DefaultUnitsAtConstruction == [][C15Step]_vars

\* C15 witness: under the default "EE", a State constructed without units
\* was resolved in degF.
C15_Witness ==
    /\ default_units = Str("EE")
    /\ op.name = "__init__"
    /\ op.args[3] = None
    /\ alive
    /\ state._units = Str("EE")
    /\ state._props[<<"T">>] = Q_(260, "degF")

\* The units tags that are accepted.
AcceptedUnits == { None, Str("SI"), Str("EE") }

\* C16, one step: a units tag that is none of "SI", "EE" and None raises
\* TypeError in set_default_units, in the constructor and in an assignment
\* to units, and leaves the default, the tag and the slots as they were; the
\* constructor returns no object.
C16Step ==
    /\ op'.name = "set_default_units" /\ op'.args[1] \notin AcceptedUnits
       => /\ raised'.type = "TypeError"
          /\ default_units' = default_units
          /\ state' = state
    /\ op'.name = "__init__" /\ op'.args[3] \notin AcceptedUnits
       => /\ raised'.type = "TypeError"
          /\ ~alive'
          /\ state' = NewObject
          /\ default_units' = default_units
    /\ IsUnitsAssignment(op') /\ op'.args[2] \notin AcceptedUnits
       => /\ raised'.type = "TypeError"
          /\ state' = state
          /\ default_units' = default_units

\* C16: a units tag other than "SI", "EE" or None is rejected with a
\* TypeError by set_default_units, by the State constructor and by assignment
\* to state.units, and the rejection leaves the process default, the State's
\* tag and the State's property slots unchanged.
C16_BadUnitsRejected == [][C16Step]_vars

\* C16 witness: under the default "SI", a resolved State tagged "EE" after
\* an assignment of another tag to its units was rejected.
C16_Witness ==
    /\ default_units = Str("SI")
    /\ alive
    /\ FullyResolved(state)
    /\ state._units = Str("EE")
    /\ IsUnitsAssignment(op)
    /\ op.args[2] = Str("bad")
    /\ raised.type = "TypeError"

\* The call o compared the object with another State, both resolved.
ComparesResolved(o) ==
    /\ o.name \in ComparisonMethods
    /\ IsState(o.args[1])
    /\ FullyResolved(state)
    /\ FullyResolved(o.args[1])

\* The temperatures and the specific volumes of two resolved States are
\* close, as absolute quantities: in kelvin and in m**3/kg.
TandVClose(a, b) ==
    /\ isclose(to_SI(<<"T">>, b._props[<<"T">>]), to_SI(<<"T">>, a._props[<<"T">>]))
    /\ isclose(to_SI(<<"v">>, b._props[<<"v">>]), to_SI(<<"v">>, a._props[<<"v">>]))

\* C17: for two resolved States a and b, a == b is True if and only if they
\* have the same substance, close temperatures and close specific volumes,
\* whatever pair each was resolved from, whatever their labels and whatever
\* their units tags; States of different substances are never equal.
C17_EqualIffSubstanceTandV ==
    ComparesResolved(op) /\ op.name = "__eq__"
    => /\ raised = NoError
       /\ returned = Bool(state.sub = op.args[1].sub /\ TandVClose(state, op.args[1]))

\* C18: between two States each of <, <=, > and >= raises TypeError and
\* returns no boolean; a State == a value that is no State is False and
\* raises nothing.
C18_OrderingUnsupported ==
    /\ op.name \in ComparisonMethods \ { "__eq__" } /\ IsState(op.args[1])
       => /\ raised.type = "TypeError"
          /\ returned = None
    /\ op.name = "__eq__" /\ ~IsState(op.args[1])
       => /\ raised = NoError
          /\ returned = Bool(FALSE)

\* C18 witness: two resolved States of one substance, temperature and volume
\* were compared with <, which raised TypeError.
C18_Witness ==
    /\ ComparesResolved(op)
    /\ op.name = "__lt__"
    /\ state._props = op.args[1]._props
    /\ raised.type = "TypeError"

\* The call o assigned a tuple of the right dimensions to an allowed pair: it
\* reached the physical-bounds check.
ReachesBoundsCheck(o) ==
    /\ IsPairAssignment(o)
    /\ o.args[1] \in _allowed_pairs
    /\ \A i \in 1..2 : o.args[2][i].units.dim = _dimensions(<<o.args[1][i]>>)

\* A value of the tuple is out of bounds: a T, p or v below zero in absolute
\* base units, or an x below 0 or above 1 as a fraction.
OutOfBounds(key, value) ==
    \E i \in 1..2 :
        \/ key[i] \in { "T", "p", "v" } /\ BaseMagnitude(value[i]) < 0
        \/ key[i] = "x" /\ (BaseMagnitude(value[i]) < 0 \/ BaseMagnitude(value[i]) > 1)

\* The exception is one of the physical-bounds check.
BoundsError(e) ==
    /\ e.type = "StateError"
    /\ e.msg \in { "must be positive in absolute units",
                    "quality must be between 0 and 1" }

\* C19: the physical-bounds check raises its StateError exactly for the
\* assignments in which T, p or v is negative in absolute base units or x is
\* outside [0, 1] as a fraction: it accepts T = 0, p = 0, v = 0, x = 0 and
\* x = 1 and a negative reading of an offset unit that is not negative in
\* absolute terms, and it constrains none of u, h and s.
C19_BoundsCheckExact ==
    ReachesBoundsCheck(op)
    => (BoundsError(raised) <=> OutOfBounds(op.args[1], op.args[2]))

\* C19 witness: -5 degC and a quality of 100 percent passed the check and
\* reached the backend, which found no such state.
C19_Witness ==
    /\ IsPairAssignment(op)
    /\ op.args[1] = <<"T", "x">>
    /\ op.args[2] = <<Q_(-5, "degC"), Q_(100, "percent")>>
    /\ raised.type = "ValueError"
    /\ Len(calls) = 1

\* What the backend answers to the last update of the last call.
LastUpdate ==
    update(AbstractState(state._abstract_state.fluid),
           calls[Len(calls)].inputs,
           calls[Len(calls)].values[1],
           calls[Len(calls)].values[2])

\* C20: when the update of a pair assignment, by attribute or by constructor
\* keywords, fails with the backend's "Saturation pressure" reason, the call
\* raises the StateError "not independent" naming the two properties in the
\* order the user gave them; when it fails for another reason the call
\* raises the backend's error as it is, after that one update.
C20_BackendFailureKinds ==
    (IsPairAssignment(op) \/ op.name = "__init__") /\ calls # <<>>
    => /\ LastUpdate.error = "ValueError: Saturation pressure"
          => /\ raised.type = "StateError"
             /\ raised.msg = "not independent"
             /\ raised.about = <<PairNameOf(op)[1], PairNameOf(op)[2]>>
       /\ LastUpdate.error \notin { "ok", "ValueError: Saturation pressure" }
          => /\ raised.type = "ValueError"
             /\ raised.msg = LastUpdate.error
             /\ Len(calls) = 1
       /\ LastUpdate.error = "ok" => raised = NoError

\* C20 witness: T and p, assigned in that order on the saturation line, were
\* named in that order by the error.
C20_Witness ==
    /\ IsPairAssignment(op)
    /\ op.args[1] = <<"T", "p">>
    /\ calls # <<>>
    /\ raised.msg = "not independent"
    /\ raised.about = <<"T", "p">>

\* C22, one step: an object whose units tag was just set to "SI" and that is
\* resolved takes the tag "EE" without an exception, and setting the tag of
\* the result to "SI" again raises nothing and leaves every slot equal, unit
\* and magnitude, to the slot before the step.
C22Step ==
    /\ IsUnitsAssignment(op)
    /\ op.args[2] = Str("SI")
    /\ raised = NoError
    /\ FullyResolved(state)
    /\ IsUnitsAssignment(op')
    /\ op'.args[2] = Str("EE")
    => /\ raised' = NoError
       /\ state'._units = Str("EE")
       /\ __setattr__(state', <<"u", "n", "i", "t", "s">>, Str("SI")).raised = NoError
       /\ __setattr__(state', <<"u", "n", "i", "t", "s">>, Str("SI")).self = state

\* C22: starting from a resolved State, setting the units tag to "SI", then
\* to "EE", then back to "SI" yields, for every property, the same unit and
\* the same value as after the first "SI" setting.
C22_UnitsRoundTrip == [][C22Step]_vars

\* C22 witness: an object that was resolved under "SI" with T = 127 degC has
\* just taken the tag "EE"; its temperature reads in degF, and setting the
\* tag to "SI" gives 127 degC again.
C22_Witness ==
    /\ alive
    /\ IsUnitsAssignment(op)
    /\ op.args[2] = Str("EE")
    /\ raised = NoError
    /\ calls # <<>>
    /\ state._props[<<"T">>].units.name = "degree_Fahrenheit"
    /\ state._props[<<"p">>].units.name = "pound_force_per_square_inch"
    /\ __setattr__(state, <<"u", "n", "i", "t", "s">>, Str("SI")).self._props[<<"T">>]
         = Q_(127, "degC")

\* The positions of the tuple whose value has not the dimension of its
\* property, and those whose value is out of bounds.
WrongDimensionAt(key, value) ==
    { i \in 1..2 : value[i].units.dim # _dimensions(<<key[i]>>) }

OutOfBoundsAt(key, value) ==
    { i \in 1..2 :
        \/ key[i] \in { "T", "p", "v" } /\ BaseMagnitude(value[i]) < 0
        \/ key[i] = "x" /\ (BaseMagnitude(value[i]) < 0 \/ BaseMagnitude(value[i]) > 1) }

\* The first position of a set of positions.
FirstOf(positions) == CHOOSE i \in positions : \A j \in positions : i <= j

\* C23: within one pair assignment the steps run in the order pair
\* classification, dimension check of both values, physical-bounds check of
\* both values, backend update: a name that is no allowed pair is rejected
\* whatever the values; a value of the wrong dimension raises the dimension
\* error even if a value is also out of bounds, naming the first property in
\* user order that is wrong; an out-of-bounds value of a tuple of the right
\* dimensions raises the bounds error of the first such property; and the
\* backend is reached only when both checks passed for both values.
C23_ChecksInOrder ==
    IsPairAssignment(op)
    => LET key == op.args[1]
           value == op.args[2]
       IN  /\ key \notin _allowed_pairs
              => /\ calls = <<>>
                 /\ raised.msg \in { "isn't supported yet", "Unknown attribute" }
           /\ key \in _allowed_pairs /\ WrongDimensionAt(key, value) # {}
              => /\ calls = <<>>
                 /\ raised = Raise("StateError", "dimensions must be",
                                   <<key[FirstOf(WrongDimensionAt(key, value))]>>)
           /\ /\ key \in _allowed_pairs
              /\ WrongDimensionAt(key, value) = {}
              /\ OutOfBoundsAt(key, value) # {}
              => /\ calls = <<>>
                 /\ raised =
                      IF key[FirstOf(OutOfBoundsAt(key, value))] = "x"
                      THEN Raise("StateError", "quality must be between 0 and 1", <<>>)
                      ELSE Raise("StateError", "must be positive in absolute units",
                                 <<key[FirstOf(OutOfBoundsAt(key, value))]>>)
           /\ calls # <<>>
              => /\ key \in _allowed_pairs
                 /\ WrongDimensionAt(key, value) = {}
                 /\ OutOfBoundsAt(key, value) = {}

\* C23 witness: a negative absolute temperature was assigned together with a
\* quality of the wrong dimension, and the error is the dimension error of x.
C23_Witness ==
    /\ IsPairAssignment(op)
    /\ op.args[1] = <<"T", "x">>
    /\ op.args[2] = <<Q_(-5, "K"), WrongQuantity("x")>>
    /\ raised = Raise("StateError", "dimensions must be", <<"x">>)
    /\ calls = <<>>

(***************************************************************************)
(* Tuples and resolver calls of every length                                *)
(***************************************************************************)

\* The most values a tuple assigned to a pair, or handed to the resolver, has.
MaxValues == 3

\* A quantity of the dimension of the property, from the gas of the table.
GasQuantity(letter) ==
    CASE letter = "T" -> Q_(400, "K")
      [] letter = "p" -> Q_(137900000, "Pa")
      [] letter = "v" -> Q_(4, "m**3/kg")
      [] letter = "u" -> Q_(3489000, "J/kg")
      [] letter = "h" -> Q_(2000, "BTU/lb")
      [] letter = "s" -> Q_(12561000, "J/(kg*K)")
      [] letter = "x" -> Q_(0, "dimensionless")

\* A tuple of n values for the property names given: the quantity of each
\* name in turn, and an enthalpy for each value beyond the names.
CountedValues(props, n) ==
    [i \in 1..n |-> IF i <= Len(props) THEN GasQuantity(props[i])
                    ELSE GasQuantity("h")]

\* The assignments drawn: each allowed pair with a tuple of each length.
CountedAssignInputs ==
    { <<key, CountedValues(key, n)>> : key \in _allowed_pairs, n \in 0..MaxValues }

\* The resolver calls drawn: one, two and three property names with a
\* collection of values of each length.
CountedResolveInputs ==
    { <<props, CountedValues(props, n)>> :
        props \in { <<"T">>, <<"T", "v">>, <<"T", "v", "h">> }, n \in 0..MaxValues }

\* A new object of each units, and the call about to be made on it.
InitCounted ==
    /\ state \in { __init__(None, <<"w", "a", "t", "e", "r">>, None, u, NoKwargs).self :
                     u \in { None, Str("SI"), Str("EE") } }
    /\ alive = TRUE
    /\ default_units = None
    /\ op \in { Call("pending", args) : args \in CountedAssignInputs }
              \cup { Call("pending resolver", args) : args \in CountedResolveInputs }
    /\ raised = NoError
    /\ calls = <<>>
    /\ returned = None
    /\ NoManager

\* state.<key> = value, for the assignment drawn
AssignCounted ==
    /\ op.name = "pending"
    /\ Becomes(__setattr__(state, op.args[1], op.args[2]))
    /\ op' = Call("__setattr__", op.args)
    /\ UNCHANGED <<alive, default_units>>

\* state._set_properties(known_props, known_values), for the call drawn
ResolveCounted ==
    /\ op.name = "pending resolver"
    /\ Becomes(_set_properties(state, op.args[1], op.args[2]))
    /\ op' = Call("_set_properties", op.args)
    /\ UNCHANGED <<alive, default_units>>

NextCounted ==
    \/ AssignCounted
    \/ ResolveCounted

SpecCounted == InitCounted /\ [][NextCounted]_vars

\* C24, one step: a pair assignment or a resolver call whose names or values
\* are not two raises the wrong-count StateError, calls no update and
\* leaves the object as it was.
C24Step ==
    /\ op'.name \in { "__setattr__", "_set_properties" }
    /\ Len(op'.args[1]) # 2 \/ Len(op'.args[2]) # 2
    => /\ raised'.type = "StateError"
       /\ calls' = <<>>
       /\ state' = state

\* C24: a resolution request must carry exactly two property names and
\* exactly two values: assigning an allowed pair attribute a tuple with fewer
\* or more than two values, or calling the resolver with name and value
\* collections of different lengths, is rejected with the wrong-count
\* StateError, with no backend call and no change to the State; no supplied
\* value is silently ignored.
C24_ExactlyTwoValues == [][C24Step]_vars

\* The last call resolved the object: it made an update and raised nothing.
JustResolved == alive /\ raised = NoError /\ calls # <<>>

\* The quality slot follows the backend's quality: None for the sentinel -1,
\* and the dimensionless quantity of that magnitude otherwise.
QualityFollowsBackend ==
    IF state._abstract_state.point.Q = -1
    THEN state._props[<<"x">>] = None
    ELSE state._props[<<"x">>] = Q_(state._abstract_state.point.Q, "dimensionless")

\* The phase slot is the string name, and the backend's phase code is the
\* code of that name.
PhaseIs(name) ==
    /\ state._props[<<"p", "h", "a", "s", "e">>] = Str(name)
    /\ state._abstract_state.point.Phase = iphase(name)

\* C25 as stated: after every successful resolution the phase is one of the
\* nine names critical_point, gas, liquid, not_imposed, supercritical,
\* supercritical_gas, supercritical_liquid, two_phase, unknown, and the
\* quality is None exactly when the backend reports -1, under every units
\* tag.
C25_PhaseNamesAsStated ==
    JustResolved
    => /\ state._props[<<"p", "h", "a", "s", "e">>]
            \in { Str(name) :
                    name \in { "critical_point", "gas", "liquid", "not_imposed",
                               "supercritical", "supercritical_gas",
                               "supercritical_liquid", "two_phase", "unknown" } }
       /\ QualityFollowsBackend

\* C25, amended: after every successful resolution the phase is one of the
\* nine names critical_point, gas, liquid, not_imposed, supercritical,
\* supercritical_gas, supercritical_liquid, twophase, unknown, the one whose
\* code the backend reports, and the quality is None exactly when the
\* backend reports -1 and the dimensionless quantity of the backend's value
\* otherwise, under every units tag.
C25_PhaseAndQuality ==
    JustResolved
    => /\ \E name \in { "critical_point", "gas", "liquid", "not_imposed",
                        "supercritical", "supercritical_gas",
                        "supercritical_liquid", "twophase", "unknown" } :
             PhaseIs(name)
       /\ QualityFollowsBackend

\* C25 witness: an object under "EE" was resolved on the saturation line: its
\* phase is twophase and its quality the dimensionless quantity 0.
C25_Witness ==
    /\ JustResolved
    /\ state._units = Str("EE")
    /\ PhaseIs("twophase")
    /\ state._props[<<"x">>] = Q_(0, "dimensionless")

\* C30, one step: while the default is "SI" or "EE", a constructor call that
\* returns leaves a tag that is not None, and the default itself when no
\* units were given; and state.units = None is accepted and leaves the tag
\* None whatever the default is.
C30Step ==
    /\ op'.name = "__init__" /\ raised' = NoError
       /\ default_units \in { Str("SI"), Str("EE") }
       => /\ state'._units # None
          /\ op'.args[3] = None => state'._units = default_units
    /\ IsUnitsAssignment(op') /\ op'.args[2] = None
       => /\ raised' = NoError
          /\ state'._units = None
          /\ default_units' = default_units

\* C30: a State constructed with units=None (or without a units argument)
\* takes the process-wide default in effect at that moment, so while the
\* default is "SI" or "EE" the constructor cannot produce a raw-tagged State;
\* assigning state.units = None after construction sets the tag to None
\* without consulting the process default.
C30_NoneAtConstructionAndAfter == [][C30Step]_vars

\* C30 witness: while the default is "EE" a resolved object was assigned
\* units = None: its tag is None and its temperature reads in kelvin.
C30_Witness ==
    /\ alive
    /\ default_units = Str("EE")
    /\ IsUnitsAssignment(op)
    /\ op.args[2] = None
    /\ raised = NoError
    /\ state._units = None
    /\ state._props[<<"T">>] = Q_(400, "K")

\* The items of the registry of States that hold the State given.
Holding(registry, s) == { n \in 1..Len(registry) : registry[n].value.state = s }

\* C26, one step: remove_state(state=s) for a State s that some item holds
\* raises nothing and deletes one item that holds s, and no other;
\* remove_state(key=k) for a key in use deletes the item of k, and no other.
C26Step ==
    /\ op'.name = "remove_state" /\ op'.args[1] # None
       /\ Holding(states, op'.args[1]) # {}
       => /\ raised' = NoError
          /\ \E n \in Holding(states, op'.args[1]) :
                states' = DictDel(states, states[n].key)
    /\ op'.name = "remove_state" /\ op'.args[1] = None /\ op'.args[2] # None
       /\ op'.args[2].s \in DictKeys(states)
       => /\ raised' = NoError
          /\ states' = DictDel(states, op'.args[2].s)
          /\ op'.args[2].s \notin DictKeys(states')

\* C26: in a plot manager, remove_state(state=s) for a State s that was
\* added under any key (its default repr key or a caller-chosen key) removes
\* exactly the entry that holds s and no other entry, also when another
\* plotted State compares equal to s; remove_state(key=k) removes exactly
\* entry k; after the removal that key is absent from states.
C26_RemovesTheStateGiven == [][C26Step]_vars

\* The call o of add_process, made with the State objects given, is one of
\* the three that are rejected: its process type is none of the supported
\* ones, the property the type holds constant is not close between the two
\* States, or the substances of the two States differ.
Rejected(o, heap) ==
    \/ /\ o.args[3] # None
       /\ o.args[3].s \notin { "isochoric", "isovolumetric", "isometric", "isobaric",
                               "isothermal", "isoenergetic", "isoenthalpic",
                               "isentropic" }
    \/ /\ o.args[3] \in { Str("isochoric"), Str("isothermal") }
       /\ ~isclose(heap[o.args[1].id]._props[<<allowed_processes(o.args[3].s)>>],
                   heap[o.args[2].id]._props[<<allowed_processes(o.args[3].s)>>])
    \/ heap[o.args[1].id].sub # heap[o.args[2].id].sub

\* C27: add_process raises ValueError when the process type is not a
\* supported one, when the property the process type holds constant is not
\* close between the two States, or when the two States have different
\* substances; in each case it raises before changing anything: the states
\* registry, the processes registry and the labels of both States are the
\* same as before the call, including when the States had not been added
\* yet.
C27_RejectedBeforeAnyChange ==
    [][op'.name = "add_process" /\ Rejected(op', objects)
       => /\ raised'.type = "ValueError"
          /\ states' = states
          /\ processes' = processes
          /\ objects' = objects]_vars

\* C27 witness: an isochoric process with labels was asked for between the
\* saturated liquid and the saturated vapor, neither added yet: ValueError
\* was raised, nothing is registered and neither State has a label.
C27_Witness ==
    /\ op.name = "add_process"
    /\ op.args[3] = Str("isochoric")
    /\ op.args[4] = Str("1")
    /\ raised = Raise("ValueError", "was not held constant", <<>>)
    /\ states = <<>>
    /\ processes = <<>>
    /\ objects[1]._label = None
    /\ objects[2]._label = None

\* C28: calling add_process for two States between which a process is
\* already registered raises ValueError and does not replace the existing
\* entry of the processes registry.
C28_SecondProcessRejected ==
    [][/\ op'.name = "add_process"
       /\ KeyOf(states, op'.args[1]) # None
       /\ KeyOf(states, op'.args[2]) # None
       /\ KeyOf(states, op'.args[1]).s \o KeyOf(states, op'.args[2]).s
            \in DictKeys(processes)
       => /\ raised'.type = "ValueError"
          /\ processes' = processes]_vars

\* C29: in a plot manager, after any sequence of add_state, remove_state,
\* add_process and remove_process calls, every entry of the processes
\* registry has a key that is the concatenation of the keys of two States
\* that are both still present in the states registry, and two different
\* ordered pairs of plotted States never share one processes key.
C29_NoDanglingProcess ==
    /\ \A n \in 1..Len(processes) :
          \E i, j \in 1..Len(states) :
             processes[n].key = states[i].key \o states[j].key
    /\ \A i, j, k, l \in 1..Len(states) :
          <<i, j>> # <<k, l>>
          => states[i].key \o states[j].key # states[k].key \o states[l].key

(***************************************************************************)
(* Two State objects side by side: assignments to one of them, and          *)
(* processes sampled between them                                           *)
(***************************************************************************)

\* Two States of water handed to a manager: the saturated liquid and the
\* saturated vapor of one temperature.
InitHeap ==
    /\ state = NewObject
    /\ alive = FALSE
    /\ default_units = None
    /\ op = Call("VaporDome", <<>>)
    /\ raised = NoError
    /\ calls = <<>>
    /\ returned = None
    /\ objects = <<SaturatedLiquid, SaturatedVapor>>
    /\ states = <<>>
    /\ plots = plot(<<>>, "T", "v").plots
    /\ processes = <<>>

\* The pairs assigned to one of the two States: the saturated liquid, the
\* saturated vapor, a compressed state, and a pair the registry refuses.
HeapPairInputs ==
    { <<<<"T", "x">>, <<Q_(102, "degC"), Q_(0, "dimensionless")>>>>,
      <<<<"T", "x">>, <<Q_(102, "degC"), Q_(100, "percent")>>>>,
      <<<<"T", "p">>, <<Q_(400, "K"), Q_(137900000, "Pa")>>>>,
      <<<<"T", "u">>, AnyValue>> }

\* The units given to one of the two States.
HeapUnitsInputs == { None, Str("SI") }

\* The outcome of an assignment to the State objects[i] becomes that object.
BecomesOf(i, r) ==
    /\ objects' = [objects EXCEPT ![i] = r.self]
    /\ raised' = r.raised
    /\ calls' = r.calls
    /\ returned' = None
    /\ UNCHANGED <<state, alive, default_units, states, plots, processes>>

\* objects[i].<key> = value, for a pair name
AssignPairTo ==
    \E i \in 1..2 :
        \E pair \in HeapPairInputs :
            /\ BecomesOf(i, __setattr__(objects[i], pair[1], pair[2]))
            /\ op' = Call("__setattr__", <<Ref(i), pair[1], pair[2]>>)

\* objects[i].units = value
AssignUnitsTo ==
    \E i \in 1..2 :
        \E value \in HeapUnitsInputs :
            /\ BecomesOf(i, __setattr__(objects[i], <<"u", "n", "i", "t", "s">>, value))
            /\ op' = Call("__setattr__", <<Ref(i), <<"u", "n", "i", "t", "s">>, value>>)

\* manager.add_process(state_1, state_2, process_type), in both orders of
\* the two States
AddProcessBetween ==
    \E i \in 1..2 :
        \E process_type \in { None, Str("isothermal"), Str("isochoric") } :
            /\ Manages(add_process(default_units, objects, states, processes, plots,
                                   Ref(i), Ref(3 - i), process_type, None, None))
            /\ op' = Call("add_process", <<Ref(i), Ref(3 - i), process_type, None, None>>)

NextHeap ==
    \/ AssignPairTo
    \/ AssignUnitsTo
    \/ AddProcessBetween

SpecHeap == InitHeap /\ [][NextHeap]_vars

\* C21, one step: an assignment to one State leaves every other State
\* object as it was, and add_process with a process type leaves the
\* property slots, phase included, the backend handle and the units tag of
\* its two argument States as they were.
C21Step ==
    /\ op'.name = "__setattr__"
       => \A j \in 1..Len(objects) : j # op'.args[1].id => objects'[j] = objects[j]
    /\ op'.name = "add_process" /\ op'.args[3] # None
       => \A j \in { op'.args[1].id, op'.args[2].id } :
             /\ objects'[j]._props = objects[j]._props
             /\ objects'[j]._abstract_state = objects[j]._abstract_state
             /\ objects'[j]._units = objects[j]._units

\* C21: each State owns its own backend handle: a pair assignment or a
\* units change on one State never changes the property slots, phase, units
\* tag or label of any other State, and add_process with a process type
\* samples intermediate points on a fresh State so that the property slots
\* of its two argument States are unchanged.
C21_StatesAreIndependent == [][C21Step]_vars

\* C21 witness: an isothermal process was sampled from the saturated vapor to
\* the saturated liquid, after the units of the first State alone were
\* changed and the pairs of both were assigned anew: the two States still
\* differ, and the second keeps no units.
C21_Witness ==
    /\ op.name = "add_process"
    /\ op.args = <<Ref(1), Ref(2), Str("isothermal"), None, None>>
    /\ raised = NoError
    /\ processes # <<>>
    /\ objects[1]._units = Str("SI")
    /\ objects[2]._units = None
    /\ objects[1]._props[<<"x">>] # objects[2]._props[<<"x">>]
    /\ objects[1]._props[<<"v">>] = SaturatedVapor._props[<<"v">>]

====
